---- MODULE Spec2Model ----
(***************************************************************************)
(* A state-machine model of rockrockrock's simulation core: the node /     *)
(* port / connection graph kept by NodeManager (src/src/nodeManager.ts),   *)
(* the data factories of nodeData.ts (src/src/main.ts, lines 29-182), the  *)
(* Inventory (src/src/game/inventory.ts), the machine and recipe catalog   *)
(* (src/src/game/nodeTypes.ts) and the TickEngine                          *)
(* (src/src/game/tickEngine.ts).                                           *)
(*                                                                         *)
(* Identities `node_<n>`, `port_<n>`, `conn_<n>` are modelled by their     *)
(* numeric suffix <n>.  A JavaScript Map is modelled by the sequence of    *)
(* its entries in insertion order.  One tick is three consecutive steps    *)
(* (power, transport, process) of the same synchronous call: while a tick  *)
(* is running (pc # "idle") nothing else can happen.                       *)
(***************************************************************************)
EXTENDS Integers, Sequences, FiniteSets, TLC

VARIABLES nodes, connections, portIdCounter, nodeIdCounter,
          connectionIdCounter, states, tickCount, powerStats, pc, onTickCalls,
          selects, stored, inventory, ret, last

vars == <<nodes, connections, portIdCounter, nodeIdCounter,
          connectionIdCounter, states, tickCount, powerStats, pc, onTickCalls,
          selects, stored, inventory, ret, last>>

(***************************************************************************)
(* Bounds of the model (not program constants).                            *)
(***************************************************************************)
\* nodes ever spawned
MaxNodes == 2

\* connections ever created
MaxConns == 2

\* ticks of one run
MaxTicks == 13

\* largest maxCapacity of the Inventory under test
MaxInvCapacity == 3

\* largest total an unbounded Inventory under test is filled to, and the
\* largest amount passed to add and remove
MaxInvHeld == 4

\* nodes ever spawned in a run with power
MaxPowerNodes == 3

\* ticks of one run with power
MaxPowerTicks == 5

\* deposits of one recipe's input amount a caller makes per resource
MaxSupplies == 1

\* ticks of one run with buffers
MaxBufferTicks == 6

\* ticks of one long run (a miner fills an Inventory)
MaxLongTicks == 126

\* ticks of a run that fills a buffer
MaxFillTicks == 330

\* ticks of a run with selections
MaxSelectTicks == 4

\* largest recipe index selected in a run with selections
MaxSelectIndex == 2

\* largest recipe index displayed on a node (a miner has recipes 0..3)
MaxPortRecipeIndex == 4

\* ticks of a run with lasting input
MaxGapTicks == 9

\* runs of a recipe a caller deposits the inputs for in one deposit
MaxGapRuns == 3

\* ticks of a run with removals
MaxStaleTicks == 3

\* the last tick after which a node is still removed in a run with removals
MaxStaleEditTick == 1

\* nodes, connections and ticks of the basic pipeline: a miner, a furnace, a
\* storage and a generator, three connections, twenty ticks
MaxPipelineNodes == 4

MaxPipelineConns == 3

MaxPipelineTicks == 20

\* the last tick after which a user still edits the graph
MaxEditTick == 0

\* recipe selections of one run
MaxSelects == 2

\* the highest recipe index a user selects
MaxRecipeIndex == 1

\* ports of one PortType on one side of a node a user reaches
MaxPortsPerType == 1

(***************************************************************************)
(* Generic helpers.                                                        *)
(***************************************************************************)
Min(a, b) == IF a <= b THEN a ELSE b

Abs(x) == IF x < 0 THEN 0 - x ELSE x

Range(s) == {s[i] : i \in 1..Len(s)}

RECURSIVE SumSeq(_)
SumSeq(s) == IF s = <<>> THEN 0 ELSE Head(s) + SumSeq(Tail(s))

\* index of the first TRUE of a sequence of tests, 0 when there is none
\* (Array.prototype.find over the tested elements)
FindIndex(tests) ==
  IF \E i \in DOMAIN tests : tests[i]
  THEN CHOOSE i \in DOMAIN tests :
         tests[i] /\ \A j \in DOMAIN tests : j < i => ~tests[j]
  ELSE 0

\* the sum of the values of a function over a subset of its domain
RECURSIVE SumOver(_, _)
SumOver(f, S) ==
  IF S = {} THEN 0
  ELSE LET x == CHOOSE y \in S : TRUE IN f[x] + SumOver(f, S \ {x})

\* the null / undefined resource id of an unbound port
NoResource == "none"

(***************************************************************************)
(* Resource catalog: RESOURCES[id].type                                    *)
(***************************************************************************)
ResourceIds == {"rock", "stone", "iron_ore", "iron", "copper_ore", "copper",
                "gear", "circuit", "coal", "water", "oil", "acid", "steam",
                "oxygen"}

RESOURCES(id) ==
  IF id \in {"water", "oil", "acid"} THEN "liquid"
  ELSE IF id \in {"steam", "oxygen"} THEN "gas"
  ELSE "item"

PortTypes == {"item", "liquid", "gas", "power"}

(***************************************************************************)
(* Inventory: items is the Map's entry list in insertion order.            *)
(***************************************************************************)
NewInventory(maxCapacity) == [items |-> <<>>, maxCapacity |-> maxCapacity]

totalAmount(inv) == SumSeq([i \in 1..Len(inv.items) |-> inv.items[i].amount])

getAmount(inv, id) ==
  LET k == FindIndex([i \in DOMAIN inv.items |-> inv.items[i].resourceId = id])
  IN  IF k = 0 THEN 0 ELSE inv.items[k].amount

\* Map.set: an existing key keeps its place, a new key goes last
MapSet(items, id, amount) ==
  LET k == FindIndex([i \in DOMAIN items |-> items[i].resourceId = id])
  IN  IF k = 0
      THEN Append(items, [resourceId |-> id, amount |-> amount])
      ELSE [items EXCEPT ![k].amount = amount]

MapKeepsZero(items, id) ==
  [i \in DOMAIN items |->
     IF items[i].resourceId = id THEN [items[i] EXCEPT !.amount = 0]
     ELSE items[i]]

MapDelete(items, id) == SelectSeq(items, LAMBDA e : e.resourceId # id)

\* an add that ignores the capacity (deviation checked against the capacity
\* invariant)
AddUnclamped(inv, amount) == amount

\* the amount Inventory.add accepts (its return value)
AddClamp(inv, amount) ==
  IF inv.maxCapacity > 0
  THEN Min(amount, inv.maxCapacity - totalAmount(inv))
  ELSE amount

AddAmount(inv, id, amount) ==
  IF amount <= 0 THEN 0
  ELSE LET a == AddClamp(inv, amount) IN IF a <= 0 THEN 0 ELSE a

AddForgetsHeld(inv, id, amount) ==
  LET a == AddAmount(inv, id, amount)
  IN  IF a = 0 THEN inv
      ELSE [inv EXCEPT !.items = MapSet(inv.items, id, a)]

\* the Inventory after add(id, amount)
Add(inv, id, amount) ==
  LET a == AddAmount(inv, id, amount)
  IN  IF a = 0 THEN inv
      ELSE [inv EXCEPT !.items = MapSet(inv.items, id, getAmount(inv, id) + a)]

\* the amount Inventory.remove takes out (its return value)
RemoveAmount(inv, id, amount) ==
  LET removed == Min(getAmount(inv, id), amount)
  IN  IF removed <= 0 THEN 0 ELSE removed

\* the Inventory after remove(id, amount)
Remove(inv, id, amount) ==
  LET current == getAmount(inv, id)
      removed == RemoveAmount(inv, id, amount)
  IN  IF removed = 0 THEN inv
      ELSE IF current - removed <= 0
           THEN [inv EXCEPT !.items = MapDelete(inv.items, id)]
           ELSE [inv EXCEPT !.items = MapSet(inv.items, id, current - removed)]

has(inv, id, amount) == getAmount(inv, id) >= amount

toStacks(inv) == SelectSeq(inv.items, LAMBDA e : e.amount > 0)

hasAll(inv, stacks) ==
  \A j \in DOMAIN stacks : has(inv, stacks[j].resourceId, stacks[j].amount)

\* the Inventory after removeAll(stacks): untouched when hasAll fails,
\* otherwise remove is applied to the stacks one after the other
removeAll(inv, stacks) ==
  LET RECURSIVE Loop(_, _)
      Loop(v, j) ==
        IF j > Len(stacks) THEN v
        ELSE Loop(Remove(v, stacks[j].resourceId, stacks[j].amount), j + 1)
  IN  IF hasAll(inv, stacks) THEN Loop(inv, 1) ELSE inv

(***************************************************************************)
(* Machine and recipe catalog (nodeTypes.ts).  A machine's port layout is  *)
(* the sequence of its ports' PortTypes.                                   *)
(***************************************************************************)
MachineIds == {"miner", "furnace", "assembler", "boiler", "generator",
               "storage", "tank", "gas_tank"}

MACHINE_TYPES(m) ==
  CASE m = "miner" ->
         [inputPorts |-> <<>>, outputPorts |-> <<"item", "item">>,
          inventoryCapacity |-> 20]
    [] m = "furnace" ->
         [inputPorts |-> <<"item", "item", "power">>,
          outputPorts |-> <<"item">>, inventoryCapacity |-> 30]
    [] m = "assembler" ->
         [inputPorts |-> <<"item", "item", "item", "power">>,
          outputPorts |-> <<"item", "item">>, inventoryCapacity |-> 30]
    [] m = "boiler" ->
         [inputPorts |-> <<"item", "liquid">>, outputPorts |-> <<"gas">>,
          inventoryCapacity |-> 40]
    [] m = "generator" ->
         [inputPorts |-> <<"gas">>, outputPorts |-> <<"power">>,
          inventoryCapacity |-> 20]
    [] m = "storage" ->
         [inputPorts |-> <<"item", "item", "item">>,
          outputPorts |-> <<"item", "item", "item">>,
          inventoryCapacity |-> 100]
    [] m = "tank" ->
         [inputPorts |-> <<"liquid", "liquid">>,
          outputPorts |-> <<"liquid", "liquid">>, inventoryCapacity |-> 200]
    [] m = "gas_tank" ->
         [inputPorts |-> <<"gas", "gas">>, outputPorts |-> <<"gas", "gas">>,
          inventoryCapacity |-> 200]

Binding(i, r, a) == [portIndex |-> i, resourceId |-> r, amount |-> a]

RECIPES ==
  << [machine |-> "miner", inputs |-> <<>>,
      outputs |-> <<Binding(0, "rock", 1)>>, powerPerTick |-> 0, ticks |-> 3],
     [machine |-> "miner", inputs |-> <<>>,
      outputs |-> <<Binding(0, "iron_ore", 1)>>, powerPerTick |-> 0,
      ticks |-> 4],
     [machine |-> "miner", inputs |-> <<>>,
      outputs |-> <<Binding(0, "copper_ore", 1)>>, powerPerTick |-> 0,
      ticks |-> 4],
     [machine |-> "miner", inputs |-> <<>>,
      outputs |-> <<Binding(0, "coal", 1)>>, powerPerTick |-> 0, ticks |-> 5],
     [machine |-> "furnace", inputs |-> <<Binding(0, "iron_ore", 2)>>,
      outputs |-> <<Binding(0, "iron", 1)>>, powerPerTick |-> 2, ticks |-> 4],
     [machine |-> "furnace", inputs |-> <<Binding(0, "copper_ore", 2)>>,
      outputs |-> <<Binding(0, "copper", 1)>>, powerPerTick |-> 2,
      ticks |-> 4],
     [machine |-> "assembler", inputs |-> <<Binding(0, "iron", 2)>>,
      outputs |-> <<Binding(0, "gear", 1)>>, powerPerTick |-> 3, ticks |-> 3],
     [machine |-> "assembler",
      inputs |-> <<Binding(0, "copper", 1), Binding(1, "gear", 1)>>,
      outputs |-> <<Binding(0, "circuit", 1)>>, powerPerTick |-> 4,
      ticks |-> 5],
     [machine |-> "boiler",
      inputs |-> <<Binding(0, "coal", 1), Binding(1, "water", 5)>>,
      outputs |-> <<Binding(0, "steam", 10)>>, powerPerTick |-> 0,
      ticks |-> 3],
     [machine |-> "generator", inputs |-> <<Binding(0, "steam", 5)>>,
      outputs |-> <<>>, powerPerTick |-> 0 - 10, ticks |-> 2] >>

\* a Recipe object is named by its place in RECIPES; NoRecipe is null
NoRecipe == 0

\* getRecipesForMachine: RECIPES.filter(r => r.machine === machineId), as
\* the sequence of the recipes' places in RECIPES
RECURSIVE FilterRecipes(_, _)
FilterRecipes(machineId, i) ==
  IF i > Len(RECIPES) THEN <<>>
  ELSE IF RECIPES[i].machine = machineId
       THEN <<i>> \o FilterRecipes(machineId, i + 1)
       ELSE FilterRecipes(machineId, i + 1)

getRecipesForMachine(machineId) == FilterRecipes(machineId, 1)

(***************************************************************************)
(* Graph data model (nodeData.ts).                                         *)
(***************************************************************************)
createPort(id, direction, portType) ==
  [id |-> id, direction |-> direction, portType |-> portType,
   resourceId |-> NoResource]

\* createGameNode: the input ports take the next port ids, then the output
\* ports, then the node takes the next node id
createGameNode(m, portCounter, nodeCounter) ==
  LET def == MACHINE_TYPES(m)
      ni  == Len(def.inputPorts)
      no  == Len(def.outputPorts)
  IN  [id |-> nodeCounter + 1,
       machineTypeId |-> m,
       inputs |-> IF ni = 0 THEN <<>>
                  ELSE [i \in 1..ni |->
                         createPort(portCounter + i, "input",
                                    def.inputPorts[i])],
       outputs |-> IF no = 0 THEN <<>>
                   ELSE [i \in 1..no |->
                          createPort(portCounter + ni + i, "output",
                                     def.outputPorts[i])]]

createConnectionData(id, fromNodeId, fromPortId, toNodeId, toPortId) ==
  [id |-> id, fromNodeId |-> fromNodeId, fromPortId |-> fromPortId,
   toNodeId |-> toNodeId, toPortId |-> toPortId]

\* nodes.find(n => n.id === id): the place of the first such node, 0 if none
FindNode(nds, id) == FindIndex([i \in DOMAIN nds |-> nds[i].id = id])

\* ports.find(p => p.id === id)
FindPort(ports, id) == FindIndex([i \in DOMAIN ports |-> ports[i].id = id])

(***************************************************************************)
(* TickEngine (tickEngine.ts).  states is the Map nodeId -> NodeGameState, *)
(* a function whose domain is the set of registered node ids.              *)
(***************************************************************************)
TransportAmountOne(portType) == 1

TRANSPORT_AMOUNT(portType) ==
  CASE portType = "item" -> 1
    [] portType = "liquid" -> 10
    [] portType = "gas" -> 10
    [] portType = "power" -> 0

NewNodeGameState(machineTypeId) ==
  LET cap == MACHINE_TYPES(machineTypeId).inventoryCapacity
  IN  [inputInventory |-> NewInventory(cap),
       outputInventory |-> NewInventory(cap),
       activeRecipe |-> NoRecipe,
       processingProgress |-> 0,
       machineTypeId |-> machineTypeId,
       powerConsumed |-> 0,
       powerProduced |-> 0,
       selectedRecipeIndex |-> 0 - 1,
       powerSatisfied |-> TRUE]

\* Map.set(key, value)
StatesSet(sts, id, st) ==
  [k \in (DOMAIN sts) \cup {id} |-> IF k = id THEN st ELSE sts[k]]

\* Map.delete(key)
StatesDelete(sts, id) == [k \in (DOMAIN sts) \ {id} |-> sts[k]]

registerNode(sts, nodeId, machineTypeId) ==
  StatesSet(sts, nodeId, NewNodeGameState(machineTypeId))

unregisterNode(sts, nodeId) == StatesDelete(sts, nodeId)

\* tick, lines 93-96: the reset of every state's power figures
ResetPower(sts) ==
  [k \in DOMAIN sts |-> [sts[k] EXCEPT !.powerConsumed = 0,
                                        !.powerProduced = 0]]

(***************************************************************************)
(* Phase 0: power.                                                         *)
(***************************************************************************)
\* a first loop in which a node generates whenever its machine type has a
\* generating recipe, active or not (deviation checked against the supply
\* gaps)
PowerSupplyWhenIdle(sts, supply, nds, i) ==
  LET gens(id) == {r \in Range(getRecipesForMachine(sts[id].machineTypeId)) :
                     RECIPES[r].powerPerTick < 0}
      RECURSIVE Loop(_, _, _)
      Loop(s, sup, j) ==
        IF j > Len(nds) THEN <<s, sup>>
        ELSE LET id == nds[j].id IN
             IF id \notin DOMAIN s \/ gens(id) = {} THEN Loop(s, sup, j + 1)
             ELSE LET generated == Abs(RECIPES[CHOOSE r \in gens(id) : TRUE]
                                         .powerPerTick)
                  IN  Loop([s EXCEPT ![id].powerProduced = generated],
                           StatesSet(sup, id, generated), j + 1)
  IN  Loop(sts, supply, i)

\* first loop: the producers; the result is <<states, powerSupply>>, with
\* powerSupply the Map nodeId -> generated
RECURSIVE PowerSupplyLoop(_, _, _, _)
PowerSupplyLoop(sts, supply, nds, i) ==
  IF i > Len(nds) THEN <<sts, supply>>
  ELSE LET id == nds[i].id IN
       IF id \notin DOMAIN sts THEN PowerSupplyLoop(sts, supply, nds, i + 1)
       ELSE LET r == sts[id].activeRecipe IN
            IF r # NoRecipe /\ RECIPES[r].powerPerTick < 0
            THEN LET generated == Abs(RECIPES[r].powerPerTick) IN
                 PowerSupplyLoop([sts EXCEPT ![id].powerProduced = generated],
                                 StatesSet(supply, id, generated), nds, i + 1)
            ELSE PowerSupplyLoop(sts, supply, nds, i + 1)

MapGet(m, k, default) == IF k \in DOMAIN m THEN m[k] ELSE default

RECURSIVE PowerReceivedOverwrite(_, _, _, _, _)
PowerReceivedOverwrite(received, supply, conns, nds, i) ==
  IF i > Len(conns) THEN received
  ELSE LET conn == conns[i]
           fn   == FindNode(nds, conn.fromNodeId)
       IN  IF fn = 0 THEN PowerReceivedOverwrite(received, supply, conns, nds, i + 1)
           ELSE LET fp == FindPort(nds[fn].outputs, conn.fromPortId) IN
                IF fp = 0 \/ nds[fn].outputs[fp].portType # "power"
                THEN PowerReceivedOverwrite(received, supply, conns, nds, i + 1)
                ELSE PowerReceivedOverwrite(
                       StatesSet(received, conn.toNodeId,
                                 MapGet(supply, conn.fromNodeId, 0)),
                       supply, conns, nds, i + 1)

\* second loop: what each node receives over the power connections
RECURSIVE PowerReceivedLoop(_, _, _, _, _)
PowerReceivedLoop(received, supply, conns, nds, i) ==
  IF i > Len(conns) THEN received
  ELSE LET conn == conns[i]
           fn   == FindNode(nds, conn.fromNodeId)
       IN  IF fn = 0 THEN PowerReceivedLoop(received, supply, conns, nds, i + 1)
           ELSE LET fp == FindPort(nds[fn].outputs, conn.fromPortId) IN
                IF fp = 0 \/ nds[fn].outputs[fp].portType # "power"
                THEN PowerReceivedLoop(received, supply, conns, nds, i + 1)
                ELSE PowerReceivedLoop(
                       StatesSet(received, conn.toNodeId,
                                 MapGet(received, conn.toNodeId, 0)
                                   + MapGet(supply, conn.fromNodeId, 0)),
                       supply, conns, nds, i + 1)

\* a requirement that asks an idle node in automatic mode for the power of
\* its first recipe (deviation checked against the start in automatic mode)
RequiredPowerOfFirst(st) ==
  LET recipes == getRecipesForMachine(st.machineTypeId)
      k       == st.selectedRecipeIndex
      r       == IF st.activeRecipe # NoRecipe THEN st.activeRecipe
                 ELSE IF k >= 0 /\ k < Len(recipes) THEN recipes[k + 1]
                 ELSE IF Len(recipes) > 0 THEN recipes[1]
                 ELSE NoRecipe
  IN  IF r # NoRecipe /\ RECIPES[r].powerPerTick > 0
      THEN RECIPES[r].powerPerTick
      ELSE 0

\* the power a node needs this tick (lines 166-174)
RequiredPower(st) ==
  LET recipes == getRecipesForMachine(st.machineTypeId)
      k       == st.selectedRecipeIndex
  IN  IF st.activeRecipe # NoRecipe /\ RECIPES[st.activeRecipe].powerPerTick > 0
      THEN RECIPES[st.activeRecipe].powerPerTick
      ELSE IF k >= 0 /\ k < Len(recipes) /\ RECIPES[recipes[k + 1]].powerPerTick > 0
           THEN RECIPES[recipes[k + 1]].powerPerTick
           ELSE 0

SatisfyAlways(st, nd, received) == [st EXCEPT !.powerSatisfied = TRUE]

\* one node's state after the satisfaction rule (lines 176-190)
SatisfyNode(st, nd, received) ==
  LET requiredPower == RequiredPower(st) IN
  IF requiredPower <= 0 THEN [st EXCEPT !.powerSatisfied = TRUE]
  ELSE IF ~(\E j \in 1..Len(nd.inputs) : nd.inputs[j].portType = "power")
       THEN [st EXCEPT !.powerSatisfied = TRUE]
       ELSE IF MapGet(received, nd.id, 0) >= requiredPower
            THEN [st EXCEPT !.powerSatisfied = TRUE,
                            !.powerConsumed = requiredPower]
            ELSE [st EXCEPT !.powerSatisfied = FALSE]

RECURSIVE PowerSatisfyLoop(_, _, _, _)
PowerSatisfyLoop(sts, received, nds, i) ==
  IF i > Len(nds) THEN sts
  ELSE LET id == nds[i].id IN
       IF id \notin DOMAIN sts THEN PowerSatisfyLoop(sts, received, nds, i + 1)
       ELSE PowerSatisfyLoop(
              [sts EXCEPT ![id] = SatisfyNode(sts[id], nds[i], received)],
              received, nds, i + 1)

EmptyMap == [k \in {} |-> 0]

powerPhase(sts, conns, nds) ==
  LET p        == PowerSupplyLoop(sts, EmptyMap, nds, 1)
      received == PowerReceivedLoop(EmptyMap, p[2], conns, nds, 1)
  IN  PowerSatisfyLoop(p[1], received, nds, 1)

(***************************************************************************)
(* Phase 1: transport.                                                     *)
(***************************************************************************)
\* what the destination is asked to accept (lines 245-246)
ToTransport(from, resourceId, amount) ==
  Min(getAmount(from.outputInventory, resourceId), amount)

\* a transport that leaves the source untouched (deviation checked against
\* conservation)
SourceRemoveNothing(inv, resourceId, added) == inv

\* what the source gives up once the destination has accepted `added`
SourceRemove(inv, resourceId, added) == Remove(inv, resourceId, added)

\* a transport that delivers into the destination's output Inventory
\* (deviation checked against one hop per tick)
TransportToOutput(from, to, resourceId, amount) ==
  LET toTransport == ToTransport(from, resourceId, amount) IN
  IF toTransport <= 0 THEN <<from, to>>
  ELSE LET added == AddAmount(to.outputInventory, resourceId, toTransport)
           to2   == [to EXCEPT !.outputInventory =
                                  Add(to.outputInventory, resourceId, toTransport)]
       IN  IF added > 0
           THEN <<[from EXCEPT !.outputInventory =
                                  SourceRemove(from.outputInventory, resourceId,
                                               added)],
                  to2>>
           ELSE <<from, to2>>

\* transportResource: <<from, to>> after the call
transportResource(from, to, resourceId, amount) ==
  LET toTransport == ToTransport(from, resourceId, amount) IN
  IF toTransport <= 0 THEN <<from, to>>
  ELSE LET added == AddAmount(to.inputInventory, resourceId, toTransport)
           to2   == [to EXCEPT !.inputInventory =
                                  Add(to.inputInventory, resourceId, toTransport)]
       IN  IF added > 0
           THEN <<[from EXCEPT !.outputInventory =
                                  SourceRemove(from.outputInventory, resourceId,
                                               added)],
                  to2>>
           ELSE <<from, to2>>

isResourceCompatible(resourceId, port) ==
  resourceId \in ResourceIds /\ RESOURCES(resourceId) = port.portType

TransportedFirstStack(from, fromPort) ==
  IF from.outputInventory.items = <<>> THEN NoResource
  ELSE from.outputInventory.items[1].resourceId

\* the resource one connection moves: the port's bound resource, else the
\* first stack of the output Inventory that fits the port's type, else none
TransportedResource(from, fromPort) ==
  IF fromPort.resourceId # NoResource THEN fromPort.resourceId
  ELSE LET stacks == toStacks(from.outputInventory)
           k == FindIndex([i \in DOMAIN stacks |->
                             isResourceCompatible(stacks[i].resourceId,
                                                  fromPort)])
       IN  IF k = 0 THEN NoResource ELSE stacks[k].resourceId

\* a transport that takes the resource out of the source although the
\* destination has no runtime state (deviation checked against the skips)
TransportToNowhere(sts, conn, nds) ==
  IF conn.fromNodeId \notin DOMAIN sts THEN sts
  ELSE LET fn == FindNode(nds, conn.fromNodeId) IN
       IF fn = 0 THEN sts
       ELSE LET fp == FindPort(nds[fn].outputs, conn.fromPortId) IN
            IF fp = 0 THEN sts
            ELSE LET fromPort == nds[fn].outputs[fp]
                     res == TransportedResource(sts[conn.fromNodeId], fromPort)
                     amount == TRANSPORT_AMOUNT(fromPort.portType)
                 IN
                 IF fromPort.portType = "power" \/ res = NoResource THEN sts
                 ELSE IF conn.toNodeId \notin DOMAIN sts
                      THEN [sts EXCEPT ![conn.fromNodeId].outputInventory =
                              Remove(@, res, amount)]
                      ELSE LET r == transportResource(
                                      sts[conn.fromNodeId], sts[conn.toNodeId],
                                      res, amount)
                           IN  IF conn.fromNodeId = conn.toNodeId
                               THEN [sts EXCEPT ![conn.fromNodeId] =
                                       [r[1] EXCEPT !.inputInventory =
                                                       r[2].inputInventory]]
                               ELSE [sts EXCEPT ![conn.fromNodeId] = r[1],
                                                ![conn.toNodeId] = r[2]]

\* the states after one connection of the transport loop (lines 198-235)
TransportConnection(sts, conn, nds) ==
  IF conn.fromNodeId \notin DOMAIN sts \/ conn.toNodeId \notin DOMAIN sts
  THEN sts
  ELSE LET fn == FindNode(nds, conn.fromNodeId)
           tn == FindNode(nds, conn.toNodeId)
       IN
       IF fn = 0 \/ tn = 0 THEN sts
       ELSE LET fp == FindPort(nds[fn].outputs, conn.fromPortId) IN
            IF fp = 0 THEN sts
            ELSE LET fromPort == nds[fn].outputs[fp] IN
                 IF fromPort.portType = "power" THEN sts
                 ELSE LET res == TransportedResource(sts[conn.fromNodeId],
                                                     fromPort)
                      IN
                      IF res = NoResource THEN sts
                      ELSE LET r == transportResource(
                                      sts[conn.fromNodeId], sts[conn.toNodeId],
                                      res, TRANSPORT_AMOUNT(fromPort.portType))
                           IN  \* from and to are the same object when the
                               \* connection joins a node to itself
                               IF conn.fromNodeId = conn.toNodeId
                               THEN [sts EXCEPT ![conn.fromNodeId] =
                                       [r[1] EXCEPT !.inputInventory =
                                                       r[2].inputInventory]]
                               ELSE [sts EXCEPT ![conn.fromNodeId] = r[1],
                                                ![conn.toNodeId] = r[2]]

RECURSIVE TransportLoop(_, _, _, _)
TransportLoop(sts, conns, nds, i) ==
  IF i > Len(conns) THEN sts
  ELSE TransportLoop(TransportConnection(sts, conns[i], nds), conns, nds, i + 1)

transportPhase(sts, conns, nds) == TransportLoop(sts, conns, nds, 1)

(***************************************************************************)
(* Phase 2: processing.                                                    *)
(***************************************************************************)
\* a buffer transfer that leaves in the input what it has put in the output
\* (deviation checked against the transfer's balance)
BufferLoopKeepsInput(st, stacks, i) ==
  LET RECURSIVE Copy(_, _)
      Copy(s, j) ==
        IF j > Len(stacks) THEN s
        ELSE Copy([s EXCEPT !.outputInventory =
                     Add(s.outputInventory, stacks[j].resourceId,
                         Min(stacks[j].amount, 5))],
                  j + 1)
  IN  Copy(st, i)

\* bufferTransfer: the loop over the stacks the input Inventory held when
\* the call began
RECURSIVE BufferLoop(_, _, _)
BufferLoop(st, stacks, i) ==
  IF i > Len(stacks) THEN st
  ELSE LET toTransfer == Min(stacks[i].amount, 5)
           added == AddAmount(st.outputInventory, stacks[i].resourceId,
                              toTransfer)
           st2 == [st EXCEPT !.outputInventory =
                     Add(st.outputInventory, stacks[i].resourceId, toTransfer)]
       IN  IF added > 0
           THEN BufferLoop([st2 EXCEPT !.inputInventory =
                              Remove(st.inputInventory, stacks[i].resourceId,
                                     added)],
                           stacks, i + 1)
           ELSE BufferLoop(st2, stacks, i + 1)

\* a buffer that keeps what it receives in its input Inventory
bufferTransferSkipped(st) == st

bufferTransfer(st) == BufferLoop(st, toStacks(st.inputInventory), 1)

\* a start check that takes any Inventory for sufficient (deviation checked
\* against start atomicity)
HasInputsAlways(st, r) == TRUE

hasRecipeInputs(st, r) ==
  IF Len(RECIPES[r].inputs) = 0 THEN TRUE
  ELSE \A j \in 1..Len(RECIPES[r].inputs) :
         has(st.inputInventory, RECIPES[r].inputs[j].resourceId,
             RECIPES[r].inputs[j].amount)

RECURSIVE ConsumeLoop(_, _, _)
ConsumeLoop(inv, bindings, j) ==
  IF j > Len(bindings) THEN inv
  ELSE ConsumeLoop(Remove(inv, bindings[j].resourceId, bindings[j].amount),
                   bindings, j + 1)

consumeRecipeInputs(st, r) ==
  [st EXCEPT !.inputInventory = ConsumeLoop(st.inputInventory,
                                            RECIPES[r].inputs, 1)]

\* a completion that produces nothing (deviation checked against recipe
\* completion)
OutputLoopNothing(inv, bindings, j) == inv

\* completion: the loop adding every output binding (lines 291-293)
RECURSIVE OutputLoop(_, _, _)
OutputLoop(inv, bindings, j) ==
  IF j > Len(bindings) THEN inv
  ELSE OutputLoop(Add(inv, bindings[j].resourceId, bindings[j].amount),
                  bindings, j + 1)

\* an engine that never pauses a recipe (deviation checked against power
\* gating)
StalledNever(st) == FALSE

\* whether an active recipe is paused this tick (line 278)
Stalled(st) ==
  RECIPES[st.activeRecipe].powerPerTick > 0 /\ ~st.powerSatisfied

\* a completion that resets the progress and leaves the recipe active
\* (deviation checked against the node lifecycle)
AdvanceKeepsActive(st) ==
  IF Stalled(st) THEN st
  ELSE LET r == RECIPES[st.activeRecipe] IN
       IF st.processingProgress + 1 >= r.ticks
       THEN [st EXCEPT !.outputInventory =
                          OutputLoop(st.outputInventory, r.outputs, 1),
                       !.processingProgress = 0]
       ELSE [st EXCEPT !.processingProgress = st.processingProgress + 1]

\* a node with an active recipe (lines 276-298)
AdvanceRecipe(st) ==
  IF Stalled(st) THEN st
  ELSE LET r  == RECIPES[st.activeRecipe]
           s1 == [st EXCEPT !.processingProgress = st.processingProgress + 1]
           s2 == IF r.powerPerTick > 0
                 THEN [s1 EXCEPT !.powerConsumed = r.powerPerTick]
                 ELSE IF r.powerPerTick < 0
                      THEN [s1 EXCEPT !.powerProduced = Abs(r.powerPerTick)]
                      ELSE s1
       IN  IF s2.processingProgress >= r.ticks
           THEN [s2 EXCEPT !.outputInventory =
                              OutputLoop(s2.outputInventory, r.outputs, 1),
                           !.activeRecipe = NoRecipe,
                           !.processingProgress = 0]
           ELSE s2

\* a candidate list that ignores the selection (deviation checked against
\* candidate selection)
CandidatesAlwaysAll(st) == getRecipesForMachine(st.machineTypeId)

\* the candidate list (lines 301-305)
CandidateRecipes(st) ==
  LET recipes == getRecipesForMachine(st.machineTypeId)
      k == st.selectedRecipeIndex
  IN  IF k >= 0 /\ k < Len(recipes) THEN <<recipes[k + 1]>> ELSE recipes

\* whether the start loop takes candidate r (lines 309-312)
Startable(st, r) ==
  ~(RECIPES[r].powerPerTick > 0 /\ ~st.powerSatisfied)
  /\ hasRecipeInputs(st, r)

\* a start loop that throws away the input it finds no recipe for
\* (deviation checked against the unconsumable input)
StartRecipeDiscards(st) ==
  LET cands == CandidateRecipes(st)
      k == FindIndex([i \in DOMAIN cands |-> Startable(st, cands[i])])
  IN  IF k = 0
      THEN [st EXCEPT !.inputInventory =
                         NewInventory(st.inputInventory.maxCapacity)]
      ELSE [consumeRecipeInputs(st, cands[k])
              EXCEPT !.activeRecipe = cands[k], !.processingProgress = 0]

\* a node without an active recipe (lines 300-318)
StartRecipe(st) ==
  LET cands == CandidateRecipes(st)
      k == FindIndex([i \in DOMAIN cands |-> Startable(st, cands[i])])
  IN  IF k = 0 THEN st
      ELSE [consumeRecipeInputs(st, cands[k])
              EXCEPT !.activeRecipe = cands[k], !.processingProgress = 0]

\* a visit that starts the next recipe in the tick of a completion
\* (deviation checked against the cycle length)
ProcessNodeRestarts(st) ==
  IF Len(getRecipesForMachine(st.machineTypeId)) = 0 THEN bufferTransfer(st)
  ELSE IF st.activeRecipe # NoRecipe
       THEN LET a == AdvanceRecipe(st) IN
            IF a.activeRecipe = NoRecipe THEN StartRecipe(a) ELSE a
       ELSE StartRecipe(st)

ProcessNode(st) ==
  IF Len(getRecipesForMachine(st.machineTypeId)) = 0 THEN bufferTransfer(st)
  ELSE IF st.activeRecipe # NoRecipe THEN AdvanceRecipe(st)
       ELSE StartRecipe(st)

\* a Phase 2 that visits every runtime state, in the graph or not
\* (deviation checked against the stale runtime state)
ProcessEveryState(sts, nds, i) ==
  [k \in DOMAIN sts |-> ProcessNode(sts[k])]

RECURSIVE ProcessLoop(_, _, _)
ProcessLoop(sts, nds, i) ==
  IF i > Len(nds) THEN sts
  ELSE LET id == nds[i].id IN
       IF id \notin DOMAIN sts THEN ProcessLoop(sts, nds, i + 1)
       ELSE ProcessLoop([sts EXCEPT ![id] = ProcessNode(sts[id])], nds, i + 1)

processPhase(sts, nds) == ProcessLoop(sts, nds, 1)

\* lines 107-116
PowerStatsOf(sts) ==
  LET c == SumOver([k \in DOMAIN sts |-> sts[k].powerConsumed], DOMAIN sts)
      p == SumOver([k \in DOMAIN sts |-> sts[k].powerProduced], DOMAIN sts)
  IN  [totalConsumed |-> c, totalProduced |-> p, balance |-> p - c]

\* a switch that records the index and lets the active recipe run on
\* (deviation checked against the recipe switch)
SelectKeepsRecipe(sts, nodeId, recipeIndex) ==
  IF nodeId \notin DOMAIN sts THEN sts
  ELSE [sts EXCEPT ![nodeId].selectedRecipeIndex = recipeIndex]

\* a switch that drops the active recipe and keeps its progress (deviation
\* checked against the progress invariant)
SelectKeepsProgress(sts, nodeId, recipeIndex) ==
  IF nodeId \notin DOMAIN sts THEN sts
  ELSE [sts EXCEPT ![nodeId].selectedRecipeIndex = recipeIndex,
                   ![nodeId].activeRecipe = NoRecipe]

setSelectedRecipe(sts, nodeId, recipeIndex) ==
  IF nodeId \notin DOMAIN sts THEN sts
  ELSE IF sts[nodeId].activeRecipe # NoRecipe
       THEN [sts EXCEPT ![nodeId].selectedRecipeIndex = recipeIndex,
                        ![nodeId].activeRecipe = NoRecipe,
                        ![nodeId].processingProgress = 0]
       ELSE [sts EXCEPT ![nodeId].selectedRecipeIndex = recipeIndex]

(***************************************************************************)
(* NodeManager (nodeManager.ts).  A PortView is a port of a live node      *)
(* together with the id of its node.                                       *)
(***************************************************************************)
PortView(nodeId, portData) == [nodeId |-> nodeId, portData |-> portData]

PortViewsOf(nd) ==
  {PortView(nd.id, nd.inputs[i]) : i \in 1..Len(nd.inputs)}
    \cup {PortView(nd.id, nd.outputs[i]) : i \in 1..Len(nd.outputs)}

PortViews(nds) == UNION {PortViewsOf(nds[i]) : i \in 1..Len(nds)}

SameEnds(c, fromNodeId, fromPortId, toNodeId, toPortId) ==
  /\ c.fromNodeId = fromNodeId
  /\ c.fromPortId = fromPortId
  /\ c.toNodeId = toNodeId
  /\ c.toPortId = toPortId

\* the port canConnect takes as the effective source (line 355)
EffectiveFrom(a, b) == IF a.portData.direction = "output" THEN a ELSE b

\* the port canConnect takes as the effective destination (line 356)
EffectiveTo(a, b) == IF a.portData.direction = "input" THEN a ELSE b

SameNode(a, b) == a.nodeId = b.nodeId

PortTypeMismatch(a, b) == a.portData.portType # b.portData.portType

SameDirection(a, b) == a.portData.direction = b.portData.direction

\* a resource check that lets every pair pass (deviation checked against
\* resource compatibility)
ResourceMismatchNever(from, to) == FALSE

ResourceMismatch(from, to) ==
  /\ from.portData.resourceId # NoResource
  /\ to.portData.resourceId # NoResource
  /\ from.portData.resourceId # to.portData.resourceId

AlreadyConnected(conns, from, to) ==
  \E i \in 1..Len(conns) :
    SameEnds(conns[i], from.nodeId, from.portData.id, to.nodeId,
             to.portData.id)

canConnect(conns, a, b) ==
  IF SameNode(a, b) THEN FALSE
  ELSE IF PortTypeMismatch(a, b) THEN FALSE
  ELSE IF SameDirection(a, b) THEN FALSE
  ELSE IF ResourceMismatch(EffectiveFrom(a, b), EffectiveTo(a, b)) THEN FALSE
  ELSE ~AlreadyConnected(conns, EffectiveFrom(a, b), EffectiveTo(a, b))

\* NodeManager.connect: the connection list after the call; the new
\* connection takes the next connection id
connect(conns, counter, fromNodeId, fromPortId, toNodeId, toPortId) ==
  Append(conns, createConnectionData(counter + 1, fromNodeId, fromPortId,
                                     toNodeId, toPortId))

\* the ports onPortDragEnd hands to connect as <<from, to>> (lines 309-311)
DragEnds(draggingPort, target) ==
  IF draggingPort.portData.direction = "input"
  THEN <<target, draggingPort>>
  ELSE <<draggingPort, target>>

\* onPortDragEnd with the drag begun on draggingPort and ended on target:
\* the connection list after the handler
DragConnections(conns, counter, draggingPort, target) ==
  IF canConnect(conns, draggingPort, target)
  THEN LET e == DragEnds(draggingPort, target)
       IN  connect(conns, counter, e[1].nodeId, e[1].portData.id,
                   e[2].nodeId, e[2].portData.id)
  ELSE conns

RemoveOrFirst(conns, connId) ==
  IF \E i \in DOMAIN conns : conns[i].id = connId
  THEN SelectSeq(conns, LAMBDA c : c.id # connId)
  ELSE SubSeq(conns, 2, Len(conns))

removeConnection(conns, connId) == SelectSeq(conns, LAMBDA c : c.id # connId)

RelatedFromOnly(conns, nodeId) ==
  SelectSeq(conns, LAMBDA c : c.fromNodeId = nodeId)

\* removeNode: the related connections go first, then the node
RelatedConnections(conns, nodeId) ==
  SelectSeq(conns, LAMBDA c : c.fromNodeId = nodeId \/ c.toNodeId = nodeId)

RECURSIVE RemoveEach(_, _, _)
RemoveEach(conns, rel, i) ==
  IF i > Len(rel) THEN conns
  ELSE RemoveEach(removeConnection(conns, rel[i].id), rel, i + 1)

removeNodeConnections(conns, nodeId) ==
  RemoveEach(conns, RelatedConnections(conns, nodeId), 1)

removeNodeNodes(nds, nodeId) == SelectSeq(nds, LAMBDA n : n.id # nodeId)

\* a rebinding that skips the reset and keeps the earlier bindings
\* (deviation checked against the rebinding frame)
ClearResourcesSkipped(ports) == ports

\* DraggableNode.updatePortResources, lines 687-696: every port that is not
\* a power port loses its resource
ClearResources(ports) ==
  [i \in DOMAIN ports |->
     IF ports[i].portType # "power"
     THEN [ports[i] EXCEPT !.resourceId = NoResource]
     ELSE ports[i]]

\* lines 698-705: each binding names a port by its 0-based index; a binding
\* whose index names no port is skipped
RECURSIVE ApplyBindings(_, _, _)
ApplyBindings(ports, bindings, j) ==
  IF j > Len(bindings) THEN ports
  ELSE LET k == bindings[j].portIndex + 1 IN
       IF k \in DOMAIN ports
       THEN ApplyBindings([ports EXCEPT ![k].resourceId =
                                          bindings[j].resourceId],
                          bindings, j + 1)
       ELSE ApplyBindings(ports, bindings, j + 1)

\* the node after updatePortResources(inputBindings, outputBindings)
updatePortResources(nd, inputBindings, outputBindings) ==
  [nd EXCEPT !.inputs = ApplyBindings(ClearResources(nd.inputs),
                                      inputBindings, 1),
             !.outputs = ApplyBindings(ClearResources(nd.outputs),
                                       outputBindings, 1)]

\* NodeManager.clearAll: every connection is removed, then every node
RECURSIVE ClearNodes(_, _, _)
ClearNodes(g, ids, i) ==
  IF i > Len(ids) THEN g
  ELSE ClearNodes([nodes |-> removeNodeNodes(g.nodes, ids[i]),
                   connections |-> removeNodeConnections(g.connections, ids[i])],
                  ids, i + 1)

clearAll(nds, conns) ==
  ClearNodes([nodes |-> nds, connections |-> RemoveEach(conns, conns, 1)],
             [i \in DOMAIN nds |-> nds[i].id], 1)

\* localStorage.getItem when nothing was stored: null
NoItem == [kind |-> "none"]

\* serializeGraph: the stored text of a graph; JSON keeps every field of
\* the nodes, ports and connections (an undefined resourceId is left out
\* and read back as undefined)
serializeGraph(nds, conns) ==
  [kind |-> "graph", nodes |-> nds, connections |-> conns]

\* the largest numeric suffix among ids, 0 when there is none
MaxSuffix(ids) == IF ids = {} THEN 0 ELSE CHOOSE m \in ids : \A x \in ids : x <= m

PortIdsOf(nds) ==
  UNION {{nds[i].inputs[j].id : j \in DOMAIN nds[i].inputs}
           \cup {nds[i].outputs[j].id : j \in DOMAIN nds[i].outputs} :
         i \in DOMAIN nds}

\* deserializeGraph: a text that is no JSON, or whose nodes or connections
\* are not iterable, raises before any counter is assigned; otherwise the
\* data come back with the largest id suffix of each kind
deserializeGraph(item) ==
  IF item.kind # "graph" THEN [raised |-> TRUE]
  ELSE [raised |-> FALSE,
        nodes |-> item.nodes,
        connections |-> item.connections,
        maxNode |-> MaxSuffix({item.nodes[i].id : i \in DOMAIN item.nodes}),
        maxPort |-> MaxSuffix(PortIdsOf(item.nodes)),
        maxConn |-> MaxSuffix({item.connections[i].id :
                                 i \in DOMAIN item.connections})]

MaxKeepsFirst(a, b) == a

Max(a, b) == IF a >= b THEN a ELSE b

\* the graph after NodeManager.load on well-formed data: clearAll, then
\* addNode for every node and addConnection for every connection
LoadedGraph(nds, conns, data) ==
  LET g == clearAll(nds, conns)
  IN  [nodes |-> g.nodes \o data.nodes,
       connections |-> g.connections \o data.connections]

\* the point at which onPortDragEnd's canConnect returns
DragOutcome(conns, a, b) ==
  IF SameNode(a, b) THEN "dragSameNode"
  ELSE IF PortTypeMismatch(a, b) THEN "dragPortType"
  ELSE IF SameDirection(a, b) THEN "dragDirection"
  ELSE IF ResourceMismatch(EffectiveFrom(a, b), EffectiveTo(a, b))
       THEN "dragResource"
  ELSE IF AlreadyConnected(conns, EffectiveFrom(a, b), EffectiveTo(a, b))
       THEN "dragDuplicate"
  ELSE "drag"

(***************************************************************************)
(* The inputs of the operations.                                           *)
(***************************************************************************)
\* the machine types a user drops from the palette
SpawnTypes == {"miner", "furnace", "storage"}

RecipeChoices == (0 - 1)..MaxRecipeIndex

NodeIds(nds) == {nds[i].id : i \in 1..Len(nds)}

\* the node ids a caller passes to the engine, registered or not
NodeIdChoices == 1..MaxNodes

\* the connection ids a caller passes to removeConnection, present or not
ConnIdChoices == 1..MaxConns

\* the ports of a side among the first MaxPortsPerType of their PortType
Reachable(ports) ==
  {i \in 1..Len(ports) :
     Cardinality({j \in 1..(i - 1) : ports[j].portType = ports[i].portType})
       < MaxPortsPerType}

UserPorts(nds) ==
  UNION {{PortView(nds[i].id, nds[i].inputs[j]) : j \in Reachable(nds[i].inputs)}
           \cup {PortView(nds[i].id, nds[i].outputs[j]) :
                   j \in Reachable(nds[i].outputs)} : i \in 1..Len(nds)}

(***************************************************************************)
(* Initial state: an empty graph, an engine with no node registered.       *)
(***************************************************************************)
Init ==
  /\ nodes = <<>>
  /\ connections = <<>>
  /\ portIdCounter = 0
  /\ nodeIdCounter = 0
  /\ connectionIdCounter = 0
  /\ states = EmptyMap
  /\ tickCount = 0
  /\ powerStats = [totalConsumed |-> 0, totalProduced |-> 0, balance |-> 0]
  /\ pc = "idle"
  /\ onTickCalls = 0
  /\ selects = 0
  /\ stored = NoItem
  /\ inventory = NewInventory(0)
  /\ ret = 0
  /\ last = "init"

(***************************************************************************)
(* Operations.  `last` names the operation that led to the state.          *)
(***************************************************************************)
\* a machine dropped from the palette: the node is built, added to the
\* graph and registered with the engine
SpawnMachineUpTo(m, limit) ==
  /\ pc = "idle"
  /\ UNCHANGED <<inventory, ret>>
  /\ tickCount <= MaxEditTick
  /\ nodeIdCounter < limit
  /\ LET nd == createGameNode(m, portIdCounter, nodeIdCounter) IN
     /\ nodes' = Append(nodes, nd)
     /\ portIdCounter' = portIdCounter + Len(nd.inputs) + Len(nd.outputs)
     /\ nodeIdCounter' = nodeIdCounter + 1
     /\ states' = registerNode(states, nd.id, m)
  /\ last' = "spawn"
  /\ UNCHANGED <<stored, connections, connectionIdCounter, tickCount, powerStats, pc,
                 onTickCalls, selects>>

SpawnMachine(m) == SpawnMachineUpTo(m, MaxNodes)

\* NodeManager.removeNode (right click on a node, Delete key)
RemoveNodeUpTo(nodeId, limit) ==
  /\ pc = "idle"
  /\ UNCHANGED <<inventory, ret>>
  /\ tickCount <= limit
  /\ connections' = removeNodeConnections(connections, nodeId)
  /\ nodes' = removeNodeNodes(nodes, nodeId)
  /\ last' = IF nodeId \notin NodeIds(nodes) THEN "removeNodeAbsent"
             ELSE IF RelatedConnections(connections, nodeId) # <<>>
             THEN "removeNodeCascade"
             ELSE "removeNode"
  /\ UNCHANGED <<stored, portIdCounter, nodeIdCounter, connectionIdCounter, states,
                 tickCount, powerStats, pc, onTickCalls, selects>>

RemoveNode(nodeId) == RemoveNodeUpTo(nodeId, MaxEditTick)

\* NodeManager.onPortDragEnd: a drag from port a dropped on port b
OnPortDragEndUpTo(a, b, limit) ==
  /\ pc = "idle"
  /\ UNCHANGED <<inventory, ret>>
  /\ tickCount <= MaxEditTick
  /\ connectionIdCounter < limit
  /\ connections' = DragConnections(connections, connectionIdCounter, a, b)
  /\ connectionIdCounter' = IF canConnect(connections, a, b)
                            THEN connectionIdCounter + 1
                            ELSE connectionIdCounter
  /\ last' = DragOutcome(connections, a, b)
  /\ UNCHANGED <<stored, nodes, portIdCounter, nodeIdCounter, states, tickCount,
                 powerStats, pc, onTickCalls, selects>>

OnPortDragEnd(a, b) == OnPortDragEndUpTo(a, b, MaxConns)

\* NodeManager.connect called with the ids of two ports
ConnectUpTo(from, to, limit) ==
  /\ pc = "idle"
  /\ UNCHANGED <<inventory, ret>>
  /\ tickCount <= limit
  /\ connectionIdCounter < MaxConns
  /\ connections' = connect(connections, connectionIdCounter, from.nodeId,
                            from.portData.id, to.nodeId, to.portData.id)
  /\ connectionIdCounter' = connectionIdCounter + 1
  /\ last' = "connect"
  /\ UNCHANGED <<stored, nodes, portIdCounter, nodeIdCounter, states, tickCount,
                 powerStats, pc, onTickCalls, selects>>

Connect(from, to) == ConnectUpTo(from, to, MaxEditTick)

\* the bindings of the recipe a node displays: recipe k of its machine, none
\* for the automatic mode or an index that names no recipe
DisplayedBindings(nd, k) ==
  LET recipes == getRecipesForMachine(nd.machineTypeId) IN
  IF k >= 0 /\ k < Len(recipes)
  THEN <<RECIPES[recipes[k + 1]].inputs, RECIPES[recipes[k + 1]].outputs>>
  ELSE <<(<<>>), (<<>>)>>

\* DraggableNode.updatePortResources on the view of node nodeId, with the
\* bindings of recipe k
UpdatePortResources(nodeId, k) ==
  /\ pc = "idle"
  /\ UNCHANGED <<inventory, ret>>
  /\ tickCount <= MaxEditTick
  /\ LET i == FindNode(nodes, nodeId) IN
       /\ i # 0
       /\ LET b == DisplayedBindings(nodes[i], k) IN
            nodes' = [nodes EXCEPT ![i] = updatePortResources(nodes[i], b[1], b[2])]
  /\ last' = "updatePortResources"
  /\ UNCHANGED <<stored, connections, portIdCounter, nodeIdCounter,
                 connectionIdCounter, states, tickCount, powerStats, pc,
                 onTickCalls, selects>>

\* NodeManager.removeConnection (right click on a connection)
RemoveConnection(connId) ==
  /\ pc = "idle"
  /\ UNCHANGED <<inventory, ret>>
  /\ tickCount <= MaxEditTick
  /\ connections' = removeConnection(connections, connId)
  /\ last' = IF \E i \in DOMAIN connections : connections[i].id = connId
             THEN "removeConnection"
             ELSE "removeConnectionAbsent"
  /\ UNCHANGED <<stored, nodes, portIdCounter, nodeIdCounter, connectionIdCounter,
                 states, tickCount, powerStats, pc, onTickCalls, selects>>

\* TickEngine.unregisterNode
UnregisterNode(nodeId) ==
  /\ pc = "idle"
  /\ UNCHANGED <<inventory, ret>>
  /\ states' = unregisterNode(states, nodeId)
  /\ last' = IF nodeId \in DOMAIN states THEN "unregister"
             ELSE "unregisterAbsent"
  /\ UNCHANGED <<stored, nodes, connections, portIdCounter, nodeIdCounter,
                 connectionIdCounter, tickCount, powerStats, pc, onTickCalls,
                 selects>>

\* a caller deposits a resource in a node's input Inventory through the
\* engine's public states map: states.get(nodeId).inputInventory.add(...)
SupplyUpTo(nodeId, resourceId, amount, limit) ==
  /\ pc = "idle"
  /\ UNCHANGED <<inventory, ret>>
  /\ tickCount <= limit
  /\ nodeId \in DOMAIN states
  /\ getAmount(states[nodeId].inputInventory, resourceId) < MaxSupplies * amount
  /\ states' = [states EXCEPT ![nodeId].inputInventory =
                                 Add(@, resourceId, amount)]
  /\ last' = "supply"
  /\ UNCHANGED <<stored, nodes, connections, portIdCounter, nodeIdCounter,
                 connectionIdCounter, tickCount, powerStats, pc, onTickCalls,
                 selects>>

Supply(nodeId, resourceId, amount) ==
  SupplyUpTo(nodeId, resourceId, amount, MaxEditTick)

\* TickEngine.setSelectedRecipe
SetSelectedRecipe(nodeId, recipeIndex) ==
  /\ pc = "idle"
  /\ UNCHANGED <<inventory, ret>>
  /\ selects < MaxSelects
  /\ states' = setSelectedRecipe(states, nodeId, recipeIndex)
  /\ selects' = selects + 1
  /\ last' = IF nodeId \notin DOMAIN states THEN "selectUnregistered"
             ELSE IF states[nodeId].activeRecipe # NoRecipe
                  THEN "selectInterrupt"
                  ELSE "select"
  /\ UNCHANGED <<stored, nodes, connections, portIdCounter, nodeIdCounter,
                 connectionIdCounter, tickCount, powerStats, pc, onTickCalls>>

\* TickEngine.tick, lines 88-99: the count, the reset and Phase 0
TickPower(limit) ==
  /\ pc = "idle"
  /\ UNCHANGED <<inventory, ret>>
  /\ tickCount < limit
  /\ tickCount' = tickCount + 1
  /\ states' = powerPhase(ResetPower(states), connections, nodes)
  /\ pc' = "transport"
  /\ last' = "tick"
  /\ UNCHANGED <<stored, nodes, connections, portIdCounter, nodeIdCounter,
                 connectionIdCounter, powerStats, onTickCalls, selects>>

TickTransportAfterProcess ==
  /\ pc = "transport"
  /\ UNCHANGED <<inventory, ret>>
  /\ states' = transportPhase(processPhase(states, nodes), connections, nodes)
  /\ pc' = "process"
  /\ UNCHANGED <<stored, nodes, connections, portIdCounter, nodeIdCounter,
                 connectionIdCounter, tickCount, powerStats, onTickCalls, selects, last>>

\* TickEngine.tick, line 102: Phase 1
TickTransport ==
  /\ pc = "transport"
  /\ UNCHANGED <<inventory, ret>>
  /\ states' = transportPhase(states, connections, nodes)
  /\ pc' = "process"
  /\ UNCHANGED <<stored, nodes, connections, portIdCounter, nodeIdCounter,
                 connectionIdCounter, tickCount, powerStats, onTickCalls, selects, last>>

TickProcessSilent ==
  /\ pc = "process"
  /\ UNCHANGED <<inventory, ret>>
  /\ states' = processPhase(states, nodes)
  /\ powerStats' = PowerStatsOf(states')
  /\ pc' = "idle"
  /\ UNCHANGED <<stored, nodes, connections, portIdCounter, nodeIdCounter,
                 connectionIdCounter, tickCount, onTickCalls, selects, last>>

\* TickEngine.tick, lines 105-118: Phase 2, the statistics and onTick
TickProcess ==
  /\ pc = "process"
  /\ UNCHANGED <<inventory, ret>>
  /\ states' = processPhase(states, nodes)
  /\ powerStats' = PowerStatsOf(states')
  /\ onTickCalls' = onTickCalls + 1
  /\ pc' = "idle"
  /\ UNCHANGED <<stored, nodes, connections, portIdCounter, nodeIdCounter,
                 connectionIdCounter, tickCount, selects, last>>

\* NodeManager.save
Save ==
  /\ pc = "idle"
  /\ UNCHANGED <<inventory, ret>>
  /\ stored' = serializeGraph(nodes, connections)
  /\ last' = "save"
  /\ UNCHANGED <<nodes, connections, portIdCounter, nodeIdCounter,
                 connectionIdCounter, states, tickCount, powerStats, pc,
                 onTickCalls, selects>>

\* the kinds of text under the storage key that deserializeGraph cannot
\* read: no JSON, an object without nodes, an object without connections
MalformedKinds == {"noJson", "noNodes", "noConnections"}

\* the stored text is replaced from outside the program (localStorage is
\* shared by every page of the origin)
CorruptStorage(kind) ==
  /\ pc = "idle"
  /\ UNCHANGED <<inventory, ret>>
  /\ stored.kind # kind
  /\ stored' = [kind |-> kind]
  /\ last' = "corrupt"
  /\ UNCHANGED <<nodes, connections, portIdCounter, nodeIdCounter,
                 connectionIdCounter, states, tickCount, powerStats, pc,
                 onTickCalls, selects>>

LoadClearsFirst ==
  /\ pc = "idle"
  /\ UNCHANGED <<inventory, ret>>
  /\ nodes' = clearAll(nodes, connections).nodes
  /\ connections' = clearAll(nodes, connections).connections
  /\ last' = IF stored = NoItem THEN "loadNothing" ELSE "loadRaised"
  /\ UNCHANGED <<stored, portIdCounter, nodeIdCounter, connectionIdCounter,
                 states, tickCount, powerStats, pc, onTickCalls, selects>>

\* NodeManager.load; `last` records what it returned and why
Load ==
  /\ pc = "idle"
  /\ UNCHANGED <<inventory, ret>>
  /\ IF stored = NoItem
     THEN /\ last' = "loadNothing"
          /\ UNCHANGED <<nodes, connections, portIdCounter, nodeIdCounter,
                         connectionIdCounter>>
     ELSE LET data == deserializeGraph(stored) IN
          IF data.raised
          THEN /\ last' = "loadRaised"
               /\ UNCHANGED <<nodes, connections, portIdCounter,
                              nodeIdCounter, connectionIdCounter>>
          ELSE /\ nodeIdCounter' = Max(nodeIdCounter, data.maxNode)
               /\ portIdCounter' = Max(portIdCounter, data.maxPort)
               /\ connectionIdCounter' = Max(connectionIdCounter, data.maxConn)
               /\ nodes' = LoadedGraph(nodes, connections, data).nodes
               /\ connections' = LoadedGraph(nodes, connections, data).connections
               /\ last' = IF \/ data.maxNode > nodeIdCounter
                             \/ data.maxPort > portIdCounter
                             \/ data.maxConn > connectionIdCounter
                          THEN "loadAdvance"
                          ELSE "load"
  /\ UNCHANGED <<stored, states, tickCount, powerStats, pc, onTickCalls,
                 selects>>

\* the page is opened again: the module counters, the NodeManager and the
\* TickEngine are new, the stored text stays
Restart ==
  /\ pc = "idle"
  /\ UNCHANGED <<inventory, ret>>
  /\ nodes' = <<>>
  /\ connections' = <<>>
  /\ portIdCounter' = 0
  /\ nodeIdCounter' = 0
  /\ connectionIdCounter' = 0
  /\ states' = EmptyMap
  /\ tickCount' = 0
  /\ powerStats' = [totalConsumed |-> 0, totalProduced |-> 0, balance |-> 0]
  /\ onTickCalls' = 0
  /\ selects' = 0
  /\ last' = "restart"
  /\ UNCHANGED <<stored, pc>>

\* the simulation: a graph built by palette drops and port drags, recipe
\* selections, ticks
Next ==
  \/ \E m \in SpawnTypes : SpawnMachine(m)
  \/ \E id \in NodeIds(nodes) : RemoveNode(id)
  \/ \E a, b \in UserPorts(nodes) : OnPortDragEnd(a, b)
  \/ \E i \in 1..Len(connections) : RemoveConnection(connections[i].id)
  \/ \E id \in NodeIdChoices, k \in RecipeChoices : SetSelectedRecipe(id, k)
  \/ TickPower(MaxTicks)
  \/ TickTransport
  \/ TickProcess

Spec == Init /\ [][Next]_vars

\* the graph editor alone: palette drops, port drags, calls of
\* NodeManager.connect, removals
NextGraph ==
  \/ \E m \in SpawnTypes : SpawnMachine(m)
  \/ \E id \in NodeIds(nodes) : RemoveNode(id)
  \/ \E a, b \in UserPorts(nodes) : OnPortDragEnd(a, b)
  \/ \E a, b \in UserPorts(nodes) : Connect(a, b)
  \/ \E i \in 1..Len(connections) : RemoveConnection(connections[i].id)
  \/ \E id \in NodeIds(nodes), k \in RecipeChoices : UpdatePortResources(id, k)

SpecGraph == Init /\ [][NextGraph]_vars

\* the resources held by the Inventory under test
InvResources == {"rock", "iron_ore", "iron"}

\* new Inventory(maxCapacity)
InvNew(maxCapacity) ==
  /\ inventory' = NewInventory(maxCapacity)
  /\ ret' = 0
  /\ last' = "new"
  /\ UNCHANGED <<nodes, connections, portIdCounter, nodeIdCounter,
                 connectionIdCounter, states, tickCount, powerStats, pc,
                 onTickCalls, selects, stored>>

\* Inventory.add(id, amount); ret is the value it returns
InvAdd(id, amount) ==
  /\ inventory.maxCapacity > 0 \/ totalAmount(inventory) + amount <= MaxInvHeld
  /\ inventory' = Add(inventory, id, amount)
  /\ ret' = AddAmount(inventory, id, amount)
  /\ last' = IF amount <= 0 THEN "addNothing"
             ELSE IF ret' = 0 THEN "addFull"
             ELSE IF ret' < amount THEN "addClamped"
             ELSE "add"
  /\ UNCHANGED <<nodes, connections, portIdCounter, nodeIdCounter,
                 connectionIdCounter, states, tickCount, powerStats, pc,
                 onTickCalls, selects, stored>>

\* Inventory.remove(id, amount); ret is the value it returns
InvRemove(id, amount) ==
  /\ inventory' = Remove(inventory, id, amount)
  /\ ret' = RemoveAmount(inventory, id, amount)
  /\ last' = IF ret' = 0 THEN "removeNothing"
             ELSE IF getAmount(inventory', id) = 0 THEN "removeAll"
             ELSE "remove"
  /\ UNCHANGED <<nodes, connections, portIdCounter, nodeIdCounter,
                 connectionIdCounter, states, tickCount, powerStats, pc,
                 onTickCalls, selects, stored>>

\* the lists of stacks passed to removeAll: one or two stacks, the same
\* resource allowed twice
StackLists ==
  LET Stack == [resourceId : InvResources, amount : 1..2]
  IN  {<<a>> : a \in Stack} \cup {<<a, b>> : a \in Stack, b \in Stack}

\* Inventory.removeAll(stacks); ret is 1 for true and 0 for false
InvRemoveAll(stacks) ==
  /\ inventory' = removeAll(inventory, stacks)
  /\ ret' = IF hasAll(inventory, stacks) THEN 1 ELSE 0
  /\ last' = IF ~hasAll(inventory, stacks) THEN "removeAllFalse"
             ELSE IF \E j, k \in DOMAIN stacks :
                       j # k /\ stacks[j].resourceId = stacks[k].resourceId
             THEN "removeAllTrueRepeated"
             ELSE "removeAllTrue"
  /\ UNCHANGED <<nodes, connections, portIdCounter, nodeIdCounter,
                 connectionIdCounter, states, tickCount, powerStats, pc,
                 onTickCalls, selects, stored>>

\* one Inventory driven through its interface
NextInventory ==
  \/ \E c \in 0..MaxInvCapacity : InvNew(c)
  \/ \E id \in InvResources, amount \in (0 - 1)..MaxInvHeld : InvAdd(id, amount)
  \/ \E id \in InvResources, amount \in (0 - 1)..MaxInvHeld : InvRemove(id, amount)
  \/ \E stacks \in StackLists : InvRemoveAll(stacks)

SpecInventory == Init /\ [][NextInventory]_vars

\* the graph editor with persistence: palette drops, port drags, removals,
\* save, load, a stored text replaced from outside, a new page
NextStore ==
  \/ \E m \in SpawnTypes : SpawnMachine(m)
  \/ \E id \in NodeIds(nodes) : RemoveNode(id)
  \/ \E a, b \in UserPorts(nodes) : OnPortDragEnd(a, b)
  \/ \E i \in 1..Len(connections) : RemoveConnection(connections[i].id)
  \/ Save
  \/ \E kind \in MalformedKinds : CorruptStorage(kind)
  \/ Load
  \/ Restart

SpecStore == Init /\ [][NextStore]_vars

\* removals called with any id, one that names something or not
NextRemove ==
  \/ \E m \in SpawnTypes : SpawnMachine(m)
  \/ \E a, b \in UserPorts(nodes) : OnPortDragEnd(a, b)
  \/ \E id \in NodeIdChoices : RemoveNode(id)
  \/ \E id \in ConnIdChoices : RemoveConnection(id)
  \/ \E id \in NodeIdChoices : UnregisterNode(id)

SpecRemove == Init /\ [][NextRemove]_vars

\* what a caller deposits in a machine of type m: the inputs of its first
\* recipe, and for a machine without recipes some gas and some items
SupplyChoices(m) ==
  LET recipes == getRecipesForMachine(m) IN
  IF Len(recipes) > 0
  THEN {<<b.resourceId, b.amount>> : b \in Range(RECIPES[recipes[1]].inputs)}
  ELSE {<<"steam", 15>>, <<"rock", 7>>}

\* the machines of a run with power: a producer and a consumer
PowerTypes == {"generator", "furnace"}

\* a run with power: generators fed with steam, furnaces fed with ore, the
\* power connections dragged, the recipes selected, then the engine ticks
NextPower ==
  \/ \E m \in PowerTypes : SpawnMachineUpTo(m, MaxPowerNodes)
  \/ \E a, b \in UserPorts(nodes) : OnPortDragEnd(a, b)
  \/ \E i \in DOMAIN nodes :
       \E c \in SupplyChoices(nodes[i].machineTypeId) :
         Supply(nodes[i].id, c[1], c[2])
  \/ \E i \in DOMAIN nodes :
       /\ tickCount <= MaxEditTick
       /\ nodes[i].machineTypeId = "furnace"
       /\ SetSelectedRecipe(nodes[i].id, 0)
  \/ TickPower(MaxPowerTicks)
  \/ TickTransport
  \/ TickProcess

SpecPower == Init /\ [][NextPower]_vars

\* the machines of a run with buffers: two machines without recipes, and
\* producers and consumers of items, gas and power
BufferTypes == {"miner", "storage", "boiler", "gas_tank", "generator",
                "furnace"}

\* a run with buffers: machines dropped and joined, inputs deposited, miner
\* ports bound to a recipe's resources, nodes unregistered from the engine,
\* then the engine ticks
NextBuffer ==
  \/ \E m \in BufferTypes : SpawnMachine(m)
  \/ \E a, b \in UserPorts(nodes) : OnPortDragEnd(a, b)
  \/ \E i \in DOMAIN nodes :
       \E c \in SupplyChoices(nodes[i].machineTypeId) :
         Supply(nodes[i].id, c[1], c[2])
  \/ \E i \in DOMAIN nodes, k \in RecipeChoices :
       /\ nodes[i].machineTypeId = "miner"
       /\ UpdatePortResources(nodes[i].id, k)
  \/ \E id \in DOMAIN states :
       tickCount <= MaxEditTick /\ UnregisterNode(id)
  \/ TickPower(MaxBufferTicks)
  \/ TickTransport
  \/ TickProcess

SpecBuffer == Init /\ [][NextBuffer]_vars

\* what a caller deposits in a machine of type m when every recipe is to be
\* tried: the inputs of each of its recipes
SelectSupplies(m) ==
  LET recipes == getRecipesForMachine(m) IN
  UNION {{<<b.resourceId, b.amount>> : b \in Range(RECIPES[recipes[i]].inputs)}
           : i \in DOMAIN recipes}

\* the recipe indexes a caller selects in a run with selections: automatic,
\* the recipes of a furnace, and one index past them
SelectChoices == (0 - 1)..MaxSelectIndex

\* a run with selections: generators and furnaces fed and joined, any index
\* selected on any node, then the engine ticks
NextSelect ==
  \/ \E m \in PowerTypes : SpawnMachine(m)
  \/ \E a, b \in UserPorts(nodes) : OnPortDragEnd(a, b)
  \/ \E i \in DOMAIN nodes :
       \E c \in SelectSupplies(nodes[i].machineTypeId) :
         Supply(nodes[i].id, c[1], c[2])
  \/ \E i \in DOMAIN nodes, k \in SelectChoices :
       tickCount <= MaxEditTick /\ SetSelectedRecipe(nodes[i].id, k)
  \/ TickPower(MaxSelectTicks)
  \/ TickTransport
  \/ TickProcess

SpecSelect == Init /\ [][NextSelect]_vars

\* the recipes displayed on any machine of the catalog: palette drops of
\* every machine type, port drags, and updatePortResources with the
\* bindings of any recipe index
NextPorts ==
  \/ \E m \in MachineIds : SpawnMachine(m)
  \/ \E a, b \in UserPorts(nodes) : OnPortDragEnd(a, b)
  \/ \E id \in NodeIds(nodes), k \in (0 - 1)..MaxPortRecipeIndex :
       UpdatePortResources(id, k)

SpecPorts == Init /\ [][NextPorts]_vars

\* what a caller deposits in a machine of type m for several runs of its
\* first recipe
GapSupplies(m) ==
  {<<c[1], MaxGapRuns * c[2]>> : c \in SupplyChoices(m)}

\* a run with lasting input: generators and furnaces fed for several runs
\* of their recipe and joined, then the engine ticks
NextGap ==
  \/ \E m \in PowerTypes : SpawnMachine(m)
  \/ \E a, b \in UserPorts(nodes) : OnPortDragEnd(a, b)
  \/ \E i \in DOMAIN nodes :
       \E c \in GapSupplies(nodes[i].machineTypeId) :
         Supply(nodes[i].id, c[1], c[2])
  \/ TickPower(MaxGapTicks)
  \/ TickTransport
  \/ TickProcess

SpecGap == Init /\ [][NextGap]_vars

\* the machines of a run with removals: a buffer, a producer and a
\* consumer of power
StaleTypes == {"storage", "generator", "furnace"}

\* the ports a removed node had, from the machine type its runtime state
\* keeps: createGameNode gave it the port ids after those of the nodes
\* created before it, inputs first
FormerPorts(id) ==
  LET count(k) == Len(MACHINE_TYPES(states[k].machineTypeId).inputPorts)
                    + Len(MACHINE_TYPES(states[k].machineTypeId).outputPorts)
      earlier  == {k \in DOMAIN states : k < id}
      base     == SumOver([k \in earlier |-> count(k)], earlier)
      def      == MACHINE_TYPES(states[id].machineTypeId)
      ni       == Len(def.inputPorts)
  IN  {PortView(id, createPort(base + i, "input", def.inputPorts[i])) :
         i \in 1..ni}
        \cup {PortView(id, createPort(base + ni + i, "output",
                                      def.outputPorts[i])) :
                i \in 1..Len(def.outputPorts)}

\* a run with removals: machines dropped, fed and joined, nodes removed
\* from the graph between ticks while the engine keeps their state,
\* NodeManager.connect called with the ids of a removed node and one of its
\* ports, and the engine ticking
NextStale ==
  \/ \E m \in StaleTypes : SpawnMachine(m)
  \/ \E a, b \in UserPorts(nodes) : OnPortDragEnd(a, b)
  \/ \E i \in DOMAIN nodes :
       \E c \in SupplyChoices(nodes[i].machineTypeId) :
         Supply(nodes[i].id, c[1], c[2])
  \/ \E id \in NodeIds(nodes) : RemoveNodeUpTo(id, MaxStaleEditTick)
  \/ \E id \in DOMAIN states \ NodeIds(nodes), b \in UserPorts(nodes) :
       \E a \in FormerPorts(id) :
         /\ a.portData.portType = b.portData.portType
         /\ a.portData.direction # b.portData.direction
         /\ IF a.portData.direction = "output"
            THEN ConnectUpTo(a, b, MaxStaleEditTick)
            ELSE ConnectUpTo(b, a, MaxStaleEditTick)
  \/ TickPower(MaxStaleTicks)
  \/ TickTransport
  \/ TickProcess

SpecStale == Init /\ [][NextStale]_vars

\* the machines of the basic pipeline, in the order they are dropped
PipelineMachines == <<"miner", "furnace", "storage", "generator">>

\* the basic pipeline: the four machines dropped, an output of one dragged
\* on an input of the next and the generator's on the furnace's, the miner
\* set to iron_ore and the furnace to iron before the first tick,
\* one generator run of steam deposited whenever the generator holds less,
\* and the engine ticking
NextPipeline ==
  \/ /\ nodeIdCounter < Len(PipelineMachines)
     /\ SpawnMachineUpTo(PipelineMachines[nodeIdCounter + 1], MaxPipelineNodes)
  \/ \E a, b \in UserPorts(nodes) :
       /\ \/ b.nodeId = a.nodeId + 1
          \/ a.nodeId = b.nodeId + 2
       /\ OnPortDragEndUpTo(a, b, MaxPipelineConns)
  \/ \E i \in DOMAIN nodes :
       /\ tickCount <= MaxEditTick
       /\ \/ nodes[i].machineTypeId = "miner"
             /\ SetSelectedRecipe(nodes[i].id, 1)
          \/ nodes[i].machineTypeId = "furnace"
             /\ SetSelectedRecipe(nodes[i].id, 0)
  \/ \E i \in DOMAIN nodes :
       /\ nodes[i].machineTypeId = "generator"
       /\ \E c \in SupplyChoices("generator") :
            SupplyUpTo(nodes[i].id, c[1], c[2], MaxPipelineTicks)
  \/ TickPower(MaxPipelineTicks)
  \/ TickTransport
  \/ TickProcess

SpecPipeline == Init /\ [][NextPipeline]_vars

\* the machines of a run that fills a buffer: a producer and a buffer
FillTypes == {"miner", "storage"}

\* a run that fills a buffer: a miner joined to a storage nothing takes from,
\* items and gas deposited in the storage, then the engine ticks for long
NextFill ==
  \/ \E m \in FillTypes : SpawnMachine(m)
  \/ \E a, b \in UserPorts(nodes) : OnPortDragEnd(a, b)
  \/ \E i \in DOMAIN nodes :
       \E c \in SupplyChoices(nodes[i].machineTypeId) :
         Supply(nodes[i].id, c[1], c[2])
  \/ TickPower(MaxFillTicks)
  \/ TickTransport
  \/ TickProcess

SpecFill == Init /\ [][NextFill]_vars

\* a long run: the graph and the selections are set up before the first
\* tick, then the engine ticks
NextLong ==
  \/ \E m \in SpawnTypes : SpawnMachine(m)
  \/ \E a, b \in UserPorts(nodes) : OnPortDragEnd(a, b)
  \/ \E id \in NodeIdChoices, k \in RecipeChoices :
       tickCount <= MaxEditTick /\ SetSelectedRecipe(id, k)
  \/ TickPower(MaxLongTicks)
  \/ TickTransport
  \/ TickProcess

SpecLong == Init /\ [][NextLong]_vars

(***************************************************************************)
(* Quantities the properties speak about.                                  *)
(***************************************************************************)
\* the amount of a resource in all output, all input Inventories
OutTotal(sts, r) ==
  SumOver([id \in DOMAIN sts |-> getAmount(sts[id].outputInventory, r)],
          DOMAIN sts)

InTotal(sts, r) ==
  SumOver([id \in DOMAIN sts |-> getAmount(sts[id].inputInventory, r)],
          DOMAIN sts)

Inventories(sts) ==
  {sts[id].inputInventory : id \in DOMAIN sts}
    \cup {sts[id].outputInventory : id \in DOMAIN sts}

(***************************************************************************)
(* Properties.                                                             *)
(***************************************************************************)
\* C1 (transport conservation): in Phase 1, for every resource, what leaves
\* the output Inventories is what enters the input Inventories, so the total
\* of the resource over all Inventories is the same before and after Phase 1.
C1_TransportConservation ==
  [][pc = "transport" =>
       \A r \in ResourceIds :
         /\ OutTotal(states, r) - OutTotal(states', r)
              = InTotal(states', r) - InTotal(states, r)
         /\ InTotal(states', r) >= InTotal(states, r)]_vars

\* Phase 1 has just run over a connection whose destination is full: the
\* destination accepted nothing and the source still holds the unit
C1_Witness ==
  /\ pc = "process"
  /\ \E i \in 1..Len(connections) :
       /\ connections[i].fromNodeId \in DOMAIN states
       /\ connections[i].toNodeId \in DOMAIN states
       /\ LET t == states[connections[i].toNodeId].inputInventory IN
            totalAmount(t) = t.maxCapacity
       /\ totalAmount(states[connections[i].fromNodeId].outputInventory) > 0

\* C2 (capacity invariant): an Inventory with a positive maxCapacity never
\* holds more than maxCapacity in total, and no Inventory holds a negative
\* total or a stack below one unit; this holds after transport, after a
\* buffer transfer and after a recipe completion.
C2_CapacityInvariant ==
  \A inv \in Inventories(states) :
    /\ totalAmount(inv) >= 0
    /\ \A i \in 1..Len(inv.items) : inv.items[i].amount > 0
    /\ inv.maxCapacity > 0 => totalAmount(inv) <= inv.maxCapacity

\* a miner whose output Inventory is full has completed one more recipe
\* than the Inventory has room for
C2_Witness ==
  /\ pc = "idle"
  /\ \E id \in DOMAIN states :
       LET st == states[id] IN
       /\ st.machineTypeId = "miner"
       /\ st.activeRecipe = NoRecipe
       /\ st.outputInventory.maxCapacity > 0
       /\ totalAmount(st.outputInventory) = st.outputInventory.maxCapacity
       /\ getAmount(st.outputInventory, "rock")
            = st.outputInventory.maxCapacity
       /\ tickCount >= 4 * (st.outputInventory.maxCapacity + 1)

\* a node whose active recipe consumes power and whose power is not satisfied
Unpowered(st) ==
  /\ st.activeRecipe # NoRecipe
  /\ RECIPES[st.activeRecipe].powerPerTick > 0
  /\ ~st.powerSatisfied

\* C3 (power gating): Phase 2 leaves the progress counter, the active recipe
\* and both Inventories of a node unchanged when the node's active recipe
\* has positive power consumption and its powerSatisfied is false.
C3_PowerGating ==
  [][pc = "process" =>
       \A id \in DOMAIN states :
         Unpowered(states[id]) =>
           /\ states'[id].processingProgress = states[id].processingProgress
           /\ states'[id].activeRecipe = states[id].activeRecipe
           /\ states'[id].inputInventory = states[id].inputInventory
           /\ states'[id].outputInventory = states[id].outputInventory]_vars

\* a tick has ended on a furnace that holds a started smelting recipe and
\* no power: its Phase 2 was the paused one
C3_Witness ==
  /\ pc = "idle"
  /\ last = "tick"
  /\ \E i \in 1..Len(nodes) :
       /\ nodes[i].id \in DOMAIN states
       /\ Unpowered(states[nodes[i].id])
       /\ states[nodes[i].id].machineTypeId = "furnace"

\* the amount of a resource a recipe's input bindings ask for
Needed(r, res) ==
  SumSeq([j \in 1..Len(RECIPES[r].inputs) |->
            IF RECIPES[r].inputs[j].resourceId = res
            THEN RECIPES[r].inputs[j].amount ELSE 0])

\* C4 (recipe start atomicity): in Phase 2 an idle recipe-bearing node either
\* starts one recipe of its machine, the full amount of every input binding
\* leaving the input Inventory, the recipe becoming active with progress 0,
\* or starts none and keeps its input Inventory, active recipe (none) and
\* progress; a recipe's inputs are never consumed in part.
C4_StartAtomicity ==
  [][pc = "process" =>
       \A id \in DOMAIN states :
         LET st == states[id]
             af == states'[id]
         IN  (Len(getRecipesForMachine(st.machineTypeId)) > 0
                /\ st.activeRecipe = NoRecipe) =>
               \/ /\ af.activeRecipe = NoRecipe
                  /\ af.inputInventory = st.inputInventory
                  /\ af.processingProgress = st.processingProgress
               \/ /\ af.activeRecipe \in Range(getRecipesForMachine(st.machineTypeId))
                  /\ af.processingProgress = 0
                  /\ \A res \in ResourceIds :
                       /\ getAmount(st.inputInventory, res)
                            >= Needed(af.activeRecipe, res)
                       /\ getAmount(af.inputInventory, res)
                            = getAmount(st.inputInventory, res)
                                - Needed(af.activeRecipe, res)]_vars

\* a furnace has just started a recipe that has inputs: the recipe is
\* active at progress 0 and the power of the tick was still satisfied
C4_Witness ==
  /\ pc = "idle"
  /\ last = "tick"
  /\ \E i \in 1..Len(nodes) :
       /\ nodes[i].id \in DOMAIN states
       /\ LET st == states[nodes[i].id] IN
            /\ st.activeRecipe # NoRecipe
            /\ Len(RECIPES[st.activeRecipe].inputs) > 0
            /\ st.processingProgress = 0
            /\ st.powerSatisfied

\* the amount of a resource a recipe's output bindings yield
Yield(r, res) ==
  SumSeq([j \in 1..Len(RECIPES[r].outputs) |->
            IF RECIPES[r].outputs[j].resourceId = res
            THEN RECIPES[r].outputs[j].amount ELSE 0])

YieldTotal(r) ==
  SumSeq([j \in 1..Len(RECIPES[r].outputs) |-> RECIPES[r].outputs[j].amount])

\* a node whose active recipe completes in the Phase 2 about to run
Completing(st) ==
  /\ st.activeRecipe # NoRecipe
  /\ ~Unpowered(st)
  /\ st.processingProgress + 1 >= RECIPES[st.activeRecipe].ticks

\* C5 as the specification states it: at completion the full amount of every
\* output binding is added to the output Inventory, whatever it already
\* holds, the active recipe is cleared and progress is 0.
C5_FullOutputAlways ==
  [][pc = "process" =>
       \A id \in DOMAIN states \cap NodeIds(nodes) :
         Completing(states[id]) =>
           /\ states'[id].activeRecipe = NoRecipe
           /\ states'[id].processingProgress = 0
           /\ \A res \in ResourceIds :
                getAmount(states'[id].outputInventory, res)
                  = getAmount(states[id].outputInventory, res)
                      + Yield(states[id].activeRecipe, res)]_vars

\* C5 (recipe completion, as the code has it): when progress reaches the
\* recipe's duration the active recipe is cleared and progress is 0, always;
\* every output binding is added through Inventory.add, so the output
\* Inventory gains the full amounts when it has room for them and otherwise
\* only what fits: its total becomes min(total + yield, maxCapacity) and no
\* resource gains more than the recipe yields.
C5_Completion ==
  [][pc = "process" =>
       \A id \in DOMAIN states \cap NodeIds(nodes) :
         Completing(states[id]) =>
           LET r   == states[id].activeRecipe
               out == states[id].outputInventory
               af  == states'[id].outputInventory
           IN  /\ states'[id].activeRecipe = NoRecipe
               /\ states'[id].processingProgress = 0
               /\ totalAmount(af)
                    = IF out.maxCapacity > 0
                      THEN Min(totalAmount(out) + YieldTotal(r), out.maxCapacity)
                      ELSE totalAmount(out) + YieldTotal(r)
               /\ \A res \in ResourceIds :
                    /\ getAmount(af, res) >= getAmount(out, res)
                    /\ getAmount(af, res) <= getAmount(out, res) + Yield(r, res)]_vars

\* a miner set to iron ore has completed one more recipe than its output
\* Inventory has room for: the Inventory is full of iron ore and the
\* recipe is cleared
C5_Witness ==
  /\ pc = "idle"
  /\ last = "tick"
  /\ \E id \in DOMAIN states :
       LET st == states[id] IN
       /\ st.machineTypeId = "miner"
       /\ st.activeRecipe = NoRecipe
       /\ st.outputInventory.maxCapacity > 0
       /\ getAmount(st.outputInventory, "iron_ore")
            = st.outputInventory.maxCapacity
       /\ tickCount >= 5 * (st.outputInventory.maxCapacity + 1)

\* C6 (recipe switch discards progress): setSelectedRecipe(node, index), for
\* any index, on a registered node sets the active recipe to none and the
\* progress to 0 when a recipe was active, leaves the node's two Inventories
\* as they were (nothing refunded, nothing produced) and leaves every other
\* node's state as it was; on an unregistered id it changes no state.
C6_RecipeSwitch ==
  [][\A id \in NodeIdChoices, k \in RecipeChoices :
       SetSelectedRecipe(id, k) =>
         IF id \in DOMAIN states
         THEN /\ DOMAIN states' = DOMAIN states
              /\ states'[id].selectedRecipeIndex = k
              /\ states[id].activeRecipe # NoRecipe =>
                   /\ states'[id].activeRecipe = NoRecipe
                   /\ states'[id].processingProgress = 0
              /\ states'[id].inputInventory = states[id].inputInventory
              /\ states'[id].outputInventory = states[id].outputInventory
              /\ \A other \in DOMAIN states \ {id} :
                   states'[other] = states[other]
         ELSE states' = states]_vars

\* a switch has interrupted the recipe of a furnace: the miners still run
\* theirs, the furnace holds no recipe, no product and not the ore its
\* recipe consumed
C6_Witness ==
  /\ last = "selectInterrupt"
  /\ \A id \in DOMAIN states :
       states[id].machineTypeId = "miner" => states[id].activeRecipe # NoRecipe
  /\ \E id \in DOMAIN states :
       /\ states[id].machineTypeId = "furnace"
       /\ states[id].activeRecipe = NoRecipe
       /\ totalAmount(states[id].outputInventory) = 0
       /\ getAmount(states[id].inputInventory, "iron_ore") = 0
       /\ getAmount(states[id].inputInventory, "copper_ore") = 0

\* C7 (guarded connect): a call of connect with a pair of ports that fails a
\* check of the legality protocol leaves the node list and the connection
\* list exactly as they were.
C7_GuardedConnect ==
  [][\A a, b \in UserPorts(nodes) :
       (Connect(a, b) /\ ~canConnect(connections, a, b)) =>
         (connections' = connections /\ nodes' = nodes)]_vars

\* C8 (duplicate rejection): in every reachable state no two connections
\* share the same (fromNode, fromPort, toNode, toPort), so a second connect
\* with the same four ids leaves one connection.
C8_NoDuplicateConnections ==
  \A i, j \in 1..Len(connections) :
    SameEnds(connections[i], connections[j].fromNodeId,
             connections[j].fromPortId, connections[j].toNodeId,
             connections[j].toPortId) => i = j

\* C9 (incompatible PortType): connecting an output port to an input port
\* of another node whose PortType differs creates no connection.
C9_PortTypeChecked ==
  [][\A a, b \in UserPorts(nodes) :
       (/\ Connect(a, b)
        /\ a.portData.direction = "output"
        /\ b.portData.direction = "input"
        /\ a.nodeId # b.nodeId
        /\ a.portData.portType # b.portData.portType) =>
         connections' = connections]_vars

\* C10 (connection symmetry): for an output port A and an input port B of
\* the same PortType on different nodes, unbound and not yet connected,
\* connect(B, A) creates the connection connect(A, B) creates: from A's node
\* and port to B's node and port.
C10_ConnectSymmetry ==
  [][\A a, b \in UserPorts(nodes) :
       (/\ a.portData.direction = "output"
        /\ b.portData.direction = "input"
        /\ canConnect(connections, a, b)
        /\ Connect(b, a)) =>
         /\ Len(connections') = Len(connections) + 1
         /\ SameEnds(connections'[Len(connections')], a.nodeId, a.portData.id,
                     b.nodeId, b.portData.id)]_vars

\* a port that a recipe has given a resource
Bound(p) == p.portData.resourceId # NoResource

\* a connection already runs from port a to port b
Joined(conns, a, b) ==
  \E i \in 1..Len(conns) :
    /\ conns[i].fromNodeId = a.nodeId /\ conns[i].fromPortId = a.portData.id
    /\ conns[i].toNodeId = b.nodeId /\ conns[i].toPortId = b.portData.id

\* C11 (resource compatibility at connect time): for an output port and an
\* input port of different nodes and the same PortType, not yet joined, a
\* drag between them in either order creates the connection iff it is not
\* the case that both ports are bound and their resource ids differ; a pair
\* with an unbound port is always connected.
C11_ResourceCompatibility ==
  [][\A a, b \in UserPorts(nodes) :
       (/\ a.portData.direction = "output"
        /\ b.portData.direction = "input"
        /\ a.nodeId # b.nodeId
        /\ a.portData.portType = b.portData.portType
        /\ ~Joined(connections, a, b)
        /\ (OnPortDragEnd(a, b) \/ OnPortDragEnd(b, a))) =>
         (Len(connections') = Len(connections) + 1
            <=> ~(/\ Bound(a) /\ Bound(b)
                  /\ a.portData.resourceId # b.portData.resourceId))]_vars

\* a drag has been refused at the resource check: no connection joins the
\* two bound ports of different resources
C11_Witness ==
  /\ last = "dragResource"
  /\ \E a, b \in UserPorts(nodes) :
       /\ a.portData.direction = "output"
       /\ b.portData.direction = "input"
       /\ a.nodeId # b.nodeId
       /\ a.portData.portType = b.portData.portType
       /\ Bound(a) /\ Bound(b)
       /\ a.portData.resourceId # b.portData.resourceId
       /\ ~Joined(connections, a, b)

C13_OneStatePerLiveNode == DOMAIN states = NodeIds(nodes)

\* the iron held by the registered nodes, input and output Inventories
IronHeld(sts) ==
  LET RECURSIVE Sum(_)
      Sum(S) == IF S = {} THEN 0
                ELSE LET n == CHOOSE x \in S : TRUE
                     IN  getAmount(sts[n].inputInventory, "iron")
                           + getAmount(sts[n].outputInventory, "iron")
                           + Sum(S \ {n})
  IN  Sum(DOMAIN sts)

\* the basic pipeline is in place: miner -> furnace -> storage joined output
\* to input, the generator's power output on the furnace's power input, the
\* miner set to iron_ore and the furnace to iron_ore -> iron
PipelineBuilt ==
  /\ Len(nodes) = Len(PipelineMachines)
  /\ \A i \in DOMAIN nodes :
       nodes[i].id = i /\ nodes[i].machineTypeId = PipelineMachines[i]
  /\ \A l \in {<<1, 2>>, <<2, 3>>, <<4, 2>>} :
       \E c \in DOMAIN connections :
         connections[c].fromNodeId = l[1] /\ connections[c].toNodeId = l[2]
  /\ states[1].selectedRecipeIndex = 1
  /\ states[2].selectedRecipeIndex = 0

\* C14 (basic pipeline): in the pipeline miner -> furnace -> storage with a
\* fuelled generator on the furnace's power input, every completed furnace
\* cycle adds exactly 1 iron to the iron held in the pipeline and no other
\* step changes that amount, every start of the furnace takes 2 iron_ore
\* from its input Inventory, and at the end of every tick the storage's
\* input Inventory holds no iron: Phase 2 of the tick in which the iron
\* arrived has moved it to the storage's output Inventory.
C14_Pipeline ==
  [][/\ IronHeld(states') - IronHeld(states)
          = IF /\ pc = "process"
               /\ \E f \in DOMAIN states :
                    /\ states[f].machineTypeId = "furnace"
                    /\ states[f].activeRecipe # NoRecipe
                    /\ states'[f].activeRecipe = NoRecipe
            THEN 1 ELSE 0
     /\ \A f \in DOMAIN states \cap DOMAIN states' :
          (/\ states[f].machineTypeId = "furnace"
           /\ states[f].activeRecipe = NoRecipe
           /\ states'[f].activeRecipe # NoRecipe) =>
            /\ states'[f].activeRecipe = 5
            /\ getAmount(states'[f].inputInventory, "iron_ore")
                 = getAmount(states[f].inputInventory, "iron_ore") - 2
     /\ pc' = "idle" =>
          \A s \in DOMAIN states' :
            states'[s].machineTypeId = "storage" =>
              getAmount(states'[s].inputInventory, "iron") = 0
    ]_vars

\* after 20 ticks of the pipeline a furnace cycle has completed and its iron
\* is in the storage's output Inventory
C14_Witness ==
  /\ pc = "idle"
  /\ last = "tick"
  /\ tickCount = 20
  /\ PipelineBuilt
  /\ IronHeld(states) = 1
  /\ getAmount(states[3].outputInventory, "iron") = 1
  /\ getAmount(states[3].inputInventory, "iron") = 0

\* the statement with the iron in the storage's input Inventory: after 20
\* ticks of the pipeline the storage's input Inventory holds as much iron as
\* furnace cycles have completed
C14_IronInStorageInput ==
  (pc = "idle" /\ tickCount = 20 /\ PipelineBuilt) =>
    getAmount(states[3].inputInventory, "iron") = IronHeld(states)

\* C15: identity advance on load. A load never decreases a counter, and
\* after every step each counter is at least the largest numeric suffix of
\* the ids of its kind in the graph, so the next generated id (counter + 1)
\* differs from every loaded id.
C15_IdentityAdvance ==
  [][/\ Load => /\ nodeIdCounter' >= nodeIdCounter
              /\ portIdCounter' >= portIdCounter
              /\ connectionIdCounter' >= connectionIdCounter
     /\ \A i \in DOMAIN nodes' : nodes'[i].id <= nodeIdCounter'
     /\ \A p \in PortIdsOf(nodes') : p <= portIdCounter'
     /\ \A i \in DOMAIN connections' :
          connections'[i].id <= connectionIdCounter']_vars

\* a load on a new page has raised the counters to the loaded suffixes
C15_Witness ==
  /\ last = "loadAdvance"
  /\ nodes # <<>>
  /\ connections # <<>>

\* C16: a failed load is all-or-nothing. When load finds no stored text, or
\* a text on which deserializeGraph raises, it returns false and the node
\* list and the connection list are exactly as before the call.
C16_LoadFailureUntouched ==
  [][(Load /\ (stored = NoItem \/ deserializeGraph(stored).raised)) =>
       /\ nodes' = nodes
       /\ connections' = connections
       /\ last' \in {"loadNothing", "loadRaised"}]_vars

\* a load has raised on an unreadable text while a graph with a connection
\* was on the canvas
C16_Witness ==
  /\ last = "loadRaised"
  /\ connections # <<>>

\* C17: removing an identity that names nothing is a no-op. removeNode with
\* an id of no node and removeConnection with an id of no connection leave
\* the node list and the connection list as they were, and unregisterNode
\* with an unknown id leaves the runtime states as they were.
C17_RemoveAbsentNoOp ==
  [][/\ \A id \in NodeIdChoices :
          (id \notin NodeIds(nodes) /\ RemoveNode(id)) =>
            (nodes' = nodes /\ connections' = connections)
     /\ \A id \in ConnIdChoices :
          ((\A i \in DOMAIN connections : connections[i].id # id)
             /\ RemoveConnection(id)) =>
            (nodes' = nodes /\ connections' = connections)
     /\ \A id \in NodeIdChoices :
          (id \notin DOMAIN states /\ UnregisterNode(id)) =>
            states' = states]_vars

\* removeConnection was called with an id of no connection while the graph
\* held a connection
C17_Witness ==
  /\ last = "removeConnectionAbsent"
  /\ connections # <<>>

\* C18: tick-completed notification. A call of tick raises tickCount by
\* exactly 1 when it begins, invokes the subscribed onTick callback exactly
\* once, in the step that ends Phase 2 and assigns the power statistics, and
\* at no other moment: between ticks the number of callbacks equals
\* tickCount, inside a tick it is one behind.
C18_TickNotification ==
  [][/\ (pc = "idle" /\ pc' = "transport") =>
          (tickCount' = tickCount + 1 /\ onTickCalls' = onTickCalls)
     /\ (pc = "transport") =>
          (tickCount' = tickCount /\ onTickCalls' = onTickCalls)
     /\ (pc = "process") =>
          /\ pc' = "idle"
          /\ tickCount' = tickCount
          /\ onTickCalls' = onTickCalls + 1
          /\ states' = processPhase(states, nodes)
          /\ powerStats' = PowerStatsOf(states')
     /\ (pc' = "idle") => onTickCalls' = tickCount'
     /\ (pc' # "idle") => onTickCalls' = tickCount' - 1]_vars

\* three ticks have completed, each with its callback
C18_Witness ==
  /\ pc = "idle"
  /\ tickCount >= 3
  /\ onTickCalls = tickCount

\* C19: Inventory.add(resource, amount) returns 0 and changes nothing when
\* amount <= 0; otherwise it returns min(amount, maxCapacity - totalAmount)
\* when maxCapacity > 0 and amount itself when maxCapacity = 0, the held
\* quantity of the resource grows by exactly the returned value and the
\* quantity of every other resource stays.
C19_AddContract ==
  [][\A id \in InvResources, amount \in (0 - 1)..MaxInvHeld :
       InvAdd(id, amount) =>
         /\ amount <= 0 => (ret' = 0 /\ inventory' = inventory)
         /\ amount > 0 =>
              /\ ret' = IF inventory.maxCapacity > 0
                        THEN Min(amount, inventory.maxCapacity
                                           - totalAmount(inventory))
                        ELSE amount
              /\ getAmount(inventory', id) = getAmount(inventory, id) + ret'
              /\ \A other \in InvResources \ {id} :
                   getAmount(inventory', other) = getAmount(inventory, other)
              /\ inventory'.maxCapacity = inventory.maxCapacity]_vars

\* an add was clamped to the room left in a bounded Inventory that already
\* held another resource
C19_Witness ==
  /\ last = "addClamped"
  /\ ret > 0
  /\ Len(inventory.items) >= 2
  /\ totalAmount(inventory) = inventory.maxCapacity

\* C20: Inventory.remove(resource, amount) returns min(held, amount), and 0
\* when amount <= 0 or nothing is held; the held quantity drops by exactly
\* the returned value and is never negative; an entry that reaches zero is
\* deleted, so after every operation no entry of the Inventory, and none of
\* toStacks, has amount 0.
C20_RemoveContract ==
  [][/\ \A id \in InvResources, amount \in (0 - 1)..MaxInvHeld :
          InvRemove(id, amount) =>
            /\ ret' = IF amount <= 0 THEN 0
                      ELSE Min(getAmount(inventory, id), amount)
            /\ getAmount(inventory', id) = getAmount(inventory, id) - ret'
            /\ getAmount(inventory', id) >= 0
            /\ \A other \in InvResources \ {id} :
                 getAmount(inventory', other) = getAmount(inventory, other)
     /\ \A i \in DOMAIN inventory'.items : inventory'.items[i].amount > 0
     /\ toStacks(inventory') = inventory'.items]_vars

\* a remove took everything held of one resource while another resource
\* stayed in the Inventory
C20_Witness ==
  /\ last = "removeAll"
  /\ ret > 0
  /\ inventory.items # <<>>

\* C21: Inventory.removeAll(stacks) is atomic for every list of stacks,
\* lists that name a resource twice included: it returns false and leaves
\* the Inventory unchanged unless all requested amounts are available, and
\* when it returns true every requested amount of every stack has been
\* removed in full.
C21_RemoveAllAtomic ==
  [][\A stacks \in StackLists :
       InvRemoveAll(stacks) =>
         LET Requested(r) ==
               SumSeq([j \in DOMAIN stacks |->
                         IF stacks[j].resourceId = r THEN stacks[j].amount
                         ELSE 0])
         IN  /\ ret' = 0 => inventory' = inventory
             /\ ret' = 1 =>
                  \A r \in InvResources :
                    getAmount(inventory', r)
                      = getAmount(inventory, r) - Requested(r)]_vars

\* C22: phase ordering. Within one tick Phase 0 runs over the whole graph,
\* then Phase 1, then Phase 2. Phase 0 computes powerSatisfied from the
\* states as they stood when the tick began and moves nothing; Phase 1 only
\* moves resources and leaves powerSatisfied, the active recipes and the
\* progress alone; Phase 2 works on the result of Phase 1, keeps
\* powerSatisfied and changes every node from that node's own state only
\* (nothing travels between nodes), so what Phase 2 produces stays in the
\* output Inventory until Phase 1 of the next tick.
C22_PhaseOrdering ==
  [][/\ (pc = "idle" /\ pc' = "transport") =>
          /\ states' = powerPhase(ResetPower(states), connections, nodes)
          /\ \A n \in DOMAIN states :
               /\ states'[n].inputInventory = states[n].inputInventory
               /\ states'[n].outputInventory = states[n].outputInventory
               /\ states'[n].activeRecipe = states[n].activeRecipe
     /\ pc = "transport" =>
          /\ pc' = "process"
          /\ states' = transportPhase(states, connections, nodes)
          /\ \A n \in DOMAIN states :
               /\ states'[n].powerSatisfied = states[n].powerSatisfied
               /\ states'[n].activeRecipe = states[n].activeRecipe
               /\ states'[n].processingProgress = states[n].processingProgress
     /\ pc = "process" =>
          /\ pc' = "idle"
          /\ \A n \in DOMAIN states :
               /\ states'[n].powerSatisfied = states[n].powerSatisfied
               /\ states'[n] = processPhase([k \in {n} |-> states[n]], nodes)[n]
     /\ (pc = "idle" /\ pc' = "idle") =>
          \A n \in DOMAIN states \cap DOMAIN states' :
            states'[n].outputInventory = states[n].outputInventory]_vars

\* inside a tick, after Phase 1 has delivered the ore and before Phase 2: a
\* furnace without an active recipe, power-satisfied by this tick's Phase 0,
\* holds the inputs of a recipe that needs power
C22_Witness ==
  /\ pc = "process"
  /\ \E n \in DOMAIN states :
       /\ states[n].machineTypeId = "furnace"
       /\ states[n].activeRecipe = NoRecipe
       /\ states[n].powerSatisfied
       /\ getAmount(states[n].inputInventory, "iron_ore") >= 2

C24_PowerSatisfaction ==
  pc = "transport" =>
    LET received == PowerReceivedLoop(EmptyMap,
                      PowerSupplyLoop(states, EmptyMap, nodes, 1)[2],
                      connections, nodes, 1)
        Required(st) ==
          LET recipes == getRecipesForMachine(st.machineTypeId)
              k == st.selectedRecipeIndex
          IN  IF st.activeRecipe # NoRecipe
                   /\ RECIPES[st.activeRecipe].powerPerTick > 0
              THEN RECIPES[st.activeRecipe].powerPerTick
              ELSE IF k >= 0 /\ k < Len(recipes)
                        /\ RECIPES[recipes[k + 1]].powerPerTick > 0
                   THEN RECIPES[recipes[k + 1]].powerPerTick
                   ELSE 0
    IN  \A i \in DOMAIN nodes :
          nodes[i].id \in DOMAIN states =>
            LET st == states[nodes[i].id]
                hasPowerIn == \E j \in DOMAIN nodes[i].inputs :
                                nodes[i].inputs[j].portType = "power"
            IN  /\ st.powerSatisfied
                     <=> \/ Required(st) <= 0
                         \/ ~hasPowerIn
                         \/ MapGet(received, nodes[i].id, 0) >= Required(st)
                /\ (hasPowerIn /\ Required(st) > 0 /\ st.powerSatisfied)
                     => st.powerConsumed = Required(st)

\* right after Phase 0 a furnace that needs power has received enough of it
C24_Witness ==
  /\ pc = "transport"
  /\ \E n \in DOMAIN states :
       /\ states[n].machineTypeId = "furnace"
       /\ states[n].powerSatisfied
       /\ states[n].powerConsumed = 2

C27_TransportSkips ==
  /\ \A n \in DOMAIN states :
       \A inv \in {states[n].inputInventory, states[n].outputInventory} :
         \A i \in DOMAIN inv.items :
           /\ inv.items[i].resourceId \in ResourceIds
           /\ RESOURCES(inv.items[i].resourceId) \in {"item", "liquid", "gas"}
  /\ pc = "transport" =>
       /\ \A k \in DOMAIN connections :
            LET c      == connections[k]
                before == transportPhase(states, SubSeq(connections, 1, k - 1),
                                         nodes)
                after  == transportPhase(states, SubSeq(connections, 1, k),
                                         nodes)
                fn     == FindNode(nodes, c.fromNodeId)
                fp     == IF fn = 0 THEN 0
                          ELSE FindPort(nodes[fn].outputs, c.fromPortId)
            IN  (\/ c.fromNodeId \notin DOMAIN states
                 \/ c.toNodeId \notin DOMAIN states
                 \/ (fp # 0 /\ nodes[fn].outputs[fp].portType = "power"))
                  => after = before
       /\ LET after == transportPhase(states, connections, nodes) IN
          \A n \in DOMAIN states :
            /\ after[n].powerProduced = states[n].powerProduced
            /\ after[n].powerConsumed = states[n].powerConsumed
            /\ after[n].powerSatisfied = states[n].powerSatisfied
  /\ pc = "process" =>
       LET after == processPhase(states, nodes) IN
       \A n \in DOMAIN states :
         /\ after[n].powerProduced = states[n].powerProduced
         /\ after[n].powerConsumed = states[n].powerConsumed
         /\ after[n].powerSatisfied = states[n].powerSatisfied

\* Phase 1 has run over a connection that leaves a node still holding rock
\* for a node that was unregistered from the engine
C27_Witness ==
  /\ pc = "process"
  /\ \E k \in DOMAIN connections :
       /\ connections[k].fromNodeId \in DOMAIN states
       /\ connections[k].toNodeId \notin DOMAIN states
       /\ getAmount(states[connections[k].fromNodeId].outputInventory,
                    "rock") > 0

\* C28 (buffer transfer): for a node whose machine type has no recipes,
\* Phase 2 moves from the input Inventory to the output Inventory, for each
\* resource held in the input, min(held, 5, room left in the output) units;
\* what leaves the input is what enters the output, no other resource
\* changes, and the node's input + output total of every resource is the
\* same after Phase 2 as before.
C28_BufferTransfer ==
  pc = "process" =>
    \A n \in DOMAIN states :
      (/\ FindNode(nodes, n) # 0
       /\ Len(getRecipesForMachine(states[n].machineTypeId)) = 0) =>
        LET st     == states[n]
            stacks == toStacks(st.inputInventory)
            done   == processPhase(states, nodes)[n]
        IN  /\ \A i \in DOMAIN stacks :
                 LET before == BufferLoop(st, SubSeq(stacks, 1, i - 1), 1)
                     after  == BufferLoop(st, SubSeq(stacks, 1, i), 1)
                     out    == before.outputInventory
                     held   == getAmount(before.inputInventory,
                                         stacks[i].resourceId)
                     room   == IF out.maxCapacity > 0
                               THEN out.maxCapacity - totalAmount(out)
                               ELSE held
                     moved  == Min(Min(held, 5), room)
                 IN  \A r \in ResourceIds :
                       LET d == IF r = stacks[i].resourceId THEN moved ELSE 0
                       IN  /\ getAmount(after.inputInventory, r)
                                = getAmount(before.inputInventory, r) - d
                           /\ getAmount(after.outputInventory, r)
                                = getAmount(out, r) + d
            /\ done = BufferLoop(st, stacks, 1)
            /\ \A r \in ResourceIds :
                 getAmount(done.inputInventory, r)
                   + getAmount(done.outputInventory, r)
                   = getAmount(st.inputInventory, r)
                       + getAmount(st.outputInventory, r)

\* Phase 2 has left rock in the input of a storage whose output Inventory
\* holds rock and steam and is full
C28_Witness ==
  /\ pc = "idle"
  /\ last = "tick"
  /\ \E n \in DOMAIN states :
       /\ states[n].machineTypeId = "storage"
       /\ totalAmount(states[n].outputInventory)
            = states[n].outputInventory.maxCapacity
       /\ getAmount(states[n].outputInventory, "steam") = 15
       /\ getAmount(states[n].inputInventory, "rock") >= 2

\* C29 (candidate selection): for a node with recipes and no active recipe,
\* the candidates of Phase 2 are the one recipe at selectedRecipeIndex when
\* the index names a recipe of the machine type, and otherwise (automatic
\* or out of range) all recipes of the machine type in catalog order; the
\* recipe started is the first candidate that is not skipped for power and
\* whose every input amount is in the input Inventory (a recipe without
\* inputs always qualifies); no later candidate starts when an earlier one
\* qualifies, and nothing starts when none qualifies.
C29_CandidateSelection ==
  pc = "process" =>
    \A n \in DOMAIN states :
      LET st      == states[n]
          recipes == getRecipesForMachine(st.machineTypeId)
          k       == st.selectedRecipeIndex
          inRange == k >= 0 /\ k < Len(recipes)
          ok(r)   == /\ RECIPES[r].powerPerTick > 0 => st.powerSatisfied
                     /\ \A j \in DOMAIN RECIPES[r].inputs :
                          getAmount(st.inputInventory,
                                    RECIPES[r].inputs[j].resourceId)
                            >= RECIPES[r].inputs[j].amount
          fit     == {i \in DOMAIN recipes :
                        (inRange => i = k + 1) /\ ok(recipes[i])}
          done    == processPhase(states, nodes)[n]
      IN  (/\ FindNode(nodes, n) # 0
           /\ Len(recipes) > 0
           /\ st.activeRecipe = NoRecipe) =>
            IF fit = {}
            THEN done = st
            ELSE /\ \E i \in fit :
                      /\ \A h \in fit : i <= h
                      /\ done.activeRecipe = recipes[i]
                 /\ done.processingProgress = 0

\* a furnace whose selected index is past its recipes and which holds
\* copper ore only has started the copper recipe, the second of its type
C29_Witness ==
  /\ pc = "idle"
  /\ last = "tick"
  /\ \E n \in DOMAIN states :
       /\ states[n].machineTypeId = "furnace"
       /\ states[n].selectedRecipeIndex = 2
       /\ states[n].activeRecipe = getRecipesForMachine("furnace")[2]
       /\ RECIPES[states[n].activeRecipe].inputs[1].resourceId = "copper_ore"

\* C30 (node lifecycle): the active recipe of a node with recipes changes
\* only from none to a recipe R, with progress 0, and from R to none, by
\* completion in Phase 2 when the progress reaches R's duration or by
\* setSelectedRecipe; it never changes from one recipe to another, and
\* while R stays active the progress never decreases.  A node whose machine
\* type has no recipes has no active recipe and progress 0 always.
C30_NodeLifecycle ==
  [][\A n \in DOMAIN states \cap DOMAIN states' :
       LET st == states[n]
           nx == states'[n]
       IN  IF Len(getRecipesForMachine(st.machineTypeId)) = 0
           THEN /\ st.activeRecipe = NoRecipe /\ st.processingProgress = 0
                /\ nx.activeRecipe = NoRecipe /\ nx.processingProgress = 0
           ELSE /\ nx.machineTypeId = st.machineTypeId
                /\ (st.activeRecipe = NoRecipe /\ nx.activeRecipe # NoRecipe)
                     => /\ pc = "process"
                        /\ nx.processingProgress = 0
                        /\ RECIPES[nx.activeRecipe].machine = st.machineTypeId
                /\ (st.activeRecipe # NoRecipe /\ nx.activeRecipe = NoRecipe)
                     => /\ nx.processingProgress = 0
                        /\ \/ /\ pc = "process"
                              /\ st.processingProgress + 1
                                   >= RECIPES[st.activeRecipe].ticks
                           \/ last' = "selectInterrupt"
                /\ (st.activeRecipe # NoRecipe /\ nx.activeRecipe # NoRecipe)
                     => /\ nx.activeRecipe = st.activeRecipe
                        /\ nx.processingProgress >= st.processingProgress
                        /\ nx.processingProgress
                             < RECIPES[st.activeRecipe].ticks
                /\ (st.activeRecipe = NoRecipe /\ nx.activeRecipe = NoRecipe)
                     => nx.processingProgress = 0 /\ st.processingProgress = 0
    ]_vars

\* a miner has completed a recipe, was interrupted in the next one by a
\* selection and is idle, next to a storage
C30_Witness ==
  /\ pc = "idle"
  /\ last = "selectInterrupt"
  /\ \E n, b \in DOMAIN states :
       /\ states[n].machineTypeId = "miner"
       /\ states[n].activeRecipe = NoRecipe
       /\ totalAmount(states[n].outputInventory) > 0
       /\ states[b].machineTypeId = "storage"

\* C31 (connection legality as a graph invariant): in every state reached
\* through connect, removeConnection and removeNode, every connection
\* joins an output port, as from, to an input port, as to, of a different
\* node with the same PortType; no connection joins two ports of one node
\* or two ports of the same direction.
C31_ConnectionLegality ==
  \A k \in DOMAIN connections :
    LET c  == connections[k]
        fn == FindNode(nodes, c.fromNodeId)
        tn == FindNode(nodes, c.toNodeId)
    IN  /\ c.fromNodeId # c.toNodeId
        /\ fn # 0 /\ tn # 0
        /\ LET fp == FindPort(nodes[fn].outputs, c.fromPortId)
               tp == FindPort(nodes[tn].inputs, c.toPortId)
           IN  /\ fp # 0 /\ tp # 0
               /\ nodes[fn].outputs[fp].portType
                    = nodes[tn].inputs[tp].portType

\* C32 (port rebinding frame): updatePortResources changes only the
\* resourceId of the ports of the one node: every port that is not a power
\* port loses its resource, then each port a binding of the recipe names by
\* index takes the binding's resource; no port changes its PortType,
\* direction, id or place in the list, no power port has a bound resource,
\* for any recipe of the catalog, and the connections stay as they are.
C32_PortRebindingFrame ==
  [][last' = "updatePortResources" =>
       /\ connections' = connections
       /\ DOMAIN nodes' = DOMAIN nodes
       /\ \A h \in DOMAIN nodes' :
            \A p \in Range(nodes'[h].inputs) \cup Range(nodes'[h].outputs) :
              p.portType = "power" => p.resourceId = NoResource
       /\ \E i \in DOMAIN nodes, k \in (0 - 1)..MaxPortRecipeIndex :
            LET recipes == getRecipesForMachine(nodes[i].machineTypeId)
                named   == k >= 0 /\ k < Len(recipes)
                bound(ports, bindings, j) ==
                  LET hits == {h \in DOMAIN bindings :
                                 bindings[h].portIndex = j - 1}
                  IN  IF named /\ hits # {}
                      THEN bindings[CHOOSE h \in hits :
                                      \A g \in hits : g <= h].resourceId
                      ELSE IF ports[j].portType = "power"
                           THEN ports[j].resourceId
                           ELSE NoResource
                same(old, new, bindings) ==
                  /\ DOMAIN new = DOMAIN old
                  /\ \A j \in DOMAIN old :
                       new[j] = [old[j] EXCEPT !.resourceId =
                                   bound(old, bindings, j)]
                ins  == IF named THEN RECIPES[recipes[k + 1]].inputs ELSE <<>>
                outs == IF named THEN RECIPES[recipes[k + 1]].outputs ELSE <<>>
            IN  /\ \A h \in DOMAIN nodes : h # i => nodes'[h] = nodes[h]
                /\ nodes'[i].id = nodes[i].id
                /\ nodes'[i].machineTypeId = nodes[i].machineTypeId
                /\ same(nodes[i].inputs, nodes'[i].inputs, ins)
                /\ same(nodes[i].outputs, nodes'[i].outputs, outs)
    ]_vars

\* a furnace joined to a miner displays its second recipe: its first input
\* port and its output port are bound, its power port is not
C32_Witness ==
  /\ last = "updatePortResources"
  /\ connections # <<>>
  /\ \E i \in DOMAIN nodes :
       /\ nodes[i].machineTypeId = "furnace"
       /\ nodes[i].inputs[1].resourceId = "copper_ore"
       /\ nodes[i].inputs[2].resourceId = NoResource
       /\ nodes[i].inputs[3].portType = "power"
       /\ nodes[i].outputs[1].resourceId = "copper"

\* C33 (progress invariant): after every tick and every setSelectedRecipe
\* call, every registered node without an active recipe has
\* processingProgress 0, and every registered node with an active recipe
\* has 0 <= processingProgress < the duration of that recipe.
C33_ProgressInvariant ==
  pc = "idle" =>
    \A n \in DOMAIN states :
      IF states[n].activeRecipe = NoRecipe
      THEN states[n].processingProgress = 0
      ELSE /\ states[n].processingProgress >= 0
           /\ states[n].processingProgress
                < RECIPES[states[n].activeRecipe].ticks

\* after seven ticks and a completion, a selection has interrupted the
\* recipe a miner was running
C33_Witness ==
  /\ pc = "idle"
  /\ last = "selectInterrupt"
  /\ tickCount >= 7
  /\ \E n \in DOMAIN states :
       /\ states[n].machineTypeId = "miner"
       /\ states[n].activeRecipe = NoRecipe
       /\ states[n].processingProgress = 0
       /\ getAmount(states[n].outputInventory, "rock") > 0

\* C34 (cycle length): a recipe of duration d started in Phase 2 of a tick
\* has progress 0 after that tick; in each later tick in which it is not
\* stalled and not switched, Phase 2 adds 1 to its progress, and only
\* Phase 2 does; in the tick that brings the progress to d the recipe
\* completes and the node starts no recipe.  So the recipe completes d
\* ticks after its start and two completions of one node are at least
\* d + 1 ticks apart: after T ticks a miner that sends nothing on and mines
\* a recipe of duration d holds at most T div (d + 1) units.
C34_CycleLength ==
  [][/\ \A n \in DOMAIN states \cap DOMAIN states' :
          LET st == states[n]
              nx == states'[n]
              R  == st.activeRecipe
          IN  /\ (pc = "process" /\ R = NoRecipe /\ nx.activeRecipe # NoRecipe)
                   => nx.processingProgress = 0
              /\ (pc = "process" /\ R # NoRecipe) =>
                   IF RECIPES[R].powerPerTick > 0 /\ ~st.powerSatisfied
                   THEN /\ nx.activeRecipe = R
                        /\ nx.processingProgress = st.processingProgress
                   ELSE IF st.processingProgress + 1 < RECIPES[R].ticks
                        THEN /\ nx.activeRecipe = R
                             /\ nx.processingProgress
                                  = st.processingProgress + 1
                        ELSE /\ nx.activeRecipe = NoRecipe
                             /\ nx.processingProgress = 0
              /\ (pc = "transport" \/ (pc = "idle" /\ pc' = "transport"))
                   => /\ nx.activeRecipe = R
                      /\ nx.processingProgress = st.processingProgress
     /\ \A i \in DOMAIN nodes' :
          (/\ nodes'[i].id \in DOMAIN states'
           /\ nodes'[i].machineTypeId = "miner"
           /\ \A c \in DOMAIN connections' :
                connections'[c].fromNodeId # nodes'[i].id) =>
            LET st      == states'[nodes'[i].id]
                recipes == getRecipesForMachine("miner")
                k       == st.selectedRecipeIndex
                R       == IF k >= 0 /\ k < Len(recipes) THEN recipes[k + 1]
                           ELSE recipes[1]
            IN  getAmount(st.outputInventory, RECIPES[R].outputs[1].resourceId)
                  <= tickCount' \div (RECIPES[R].ticks + 1)
    ]_vars

\* a miner set to its second recipe, of duration 4, has completed it twice
\* in ten ticks and is idle
C34_Witness ==
  /\ pc = "idle"
  /\ tickCount = 10
  /\ \E n \in DOMAIN states :
       /\ states[n].machineTypeId = "miner"
       /\ states[n].selectedRecipeIndex = 1
       /\ states[n].activeRecipe = NoRecipe
       /\ getAmount(states[n].outputInventory, "iron_ore") = 2

\* C35 (one hop per tick): Phase 1 only takes from output Inventories and
\* only puts into input Inventories, in whatever order the connections are
\* listed, and Phase 2 only takes from input Inventories and only puts into
\* output Inventories; so what enters a node's input Inventory in a tick
\* is in no output Inventory before Phase 2 of that tick and leaves over no
\* connection before the next tick.
C35_OneHopPerTick ==
  [][/\ pc = "transport" =>
          /\ \A n \in DOMAIN states : \A r \in ResourceIds :
               /\ getAmount(states'[n].outputInventory, r)
                    <= getAmount(states[n].outputInventory, r)
               /\ getAmount(states'[n].inputInventory, r)
                    >= getAmount(states[n].inputInventory, r)
          /\ LET L == Len(connections) IN
             \A f \in {g \in [1..L -> 1..L] :
                         \A x, y \in 1..L : g[x] = g[y] => x = y} :
               LET after == transportPhase(states,
                                           [x \in 1..L |-> connections[f[x]]],
                                           nodes)
               IN  \A n \in DOMAIN states : \A r \in ResourceIds :
                     /\ getAmount(after[n].outputInventory, r)
                          <= getAmount(states[n].outputInventory, r)
                     /\ getAmount(after[n].inputInventory, r)
                          >= getAmount(states[n].inputInventory, r)
     /\ pc = "process" =>
          \A n \in DOMAIN states : \A r \in ResourceIds :
            /\ getAmount(states'[n].inputInventory, r)
                 <= getAmount(states[n].inputInventory, r)
            /\ getAmount(states'[n].outputInventory, r)
                 >= getAmount(states[n].outputInventory, r)
    ]_vars

\* two storages joined in a ring: in the second tick Phase 1 has brought a
\* rock into the input of the second one, whose connection back comes later
\* in the list, and the rock has not gone on
C35_Witness ==
  /\ pc = "process"
  /\ tickCount = 2
  /\ Len(connections) = 2
  /\ connections[2].fromNodeId = connections[1].toNodeId
  /\ connections[2].toNodeId = connections[1].fromNodeId
  /\ connections[1].toNodeId \in DOMAIN states
  /\ connections[1].fromNodeId \in DOMAIN states
  /\ LET b == states[connections[1].toNodeId]
         a == states[connections[1].fromNodeId]
     IN  /\ a.machineTypeId = "storage" /\ b.machineTypeId = "storage"
         /\ getAmount(b.inputInventory, "rock") = 1
         /\ totalAmount(b.outputInventory) = 0
         /\ getAmount(a.inputInventory, "rock") = 2
         /\ getAmount(a.outputInventory, "rock") = 4

\* C36 (automatic mode is never power-gated at start): Phase 0 marks every
\* node with selectedRecipeIndex -1 and no active recipe powerSatisfied,
\* whatever power it receives; so an idle node in automatic mode that has a
\* power input port and receives no power starts a recipe that takes power
\* in the first Phase 2 that finds the inputs of one of its recipes, and
\* consumes them; the recipe then stays at the progress it has in every
\* tick without power, at 0 while no connection reaches the node.
C36_AutomaticStart ==
  [][/\ pc = "transport" =>
          \A n \in DOMAIN states :
            (/\ FindNode(nodes, n) # 0
             /\ states[n].selectedRecipeIndex = 0 - 1
             /\ states[n].activeRecipe = NoRecipe) => states[n].powerSatisfied
     /\ pc = "process" =>
          \A n \in DOMAIN states :
            LET st      == states[n]
                nx      == states'[n]
                recipes == getRecipesForMachine(st.machineTypeId)
                ready   == {i \in DOMAIN recipes :
                              \A j \in DOMAIN RECIPES[recipes[i]].inputs :
                                getAmount(st.inputInventory,
                                   RECIPES[recipes[i]].inputs[j].resourceId)
                                  >= RECIPES[recipes[i]].inputs[j].amount}
            IN  /\ (/\ FindNode(nodes, n) # 0
                     /\ st.selectedRecipeIndex = 0 - 1
                     /\ st.activeRecipe = NoRecipe
                     /\ ready # {}) =>
                      /\ nx.activeRecipe \in {recipes[i] : i \in ready}
                      /\ nx.processingProgress = 0
                      /\ \A j \in DOMAIN RECIPES[nx.activeRecipe].inputs :
                           LET b == RECIPES[nx.activeRecipe].inputs[j] IN
                           getAmount(nx.inputInventory, b.resourceId)
                             = getAmount(st.inputInventory, b.resourceId)
                                 - b.amount
                /\ (/\ FindNode(nodes, n) # 0
                     /\ st.activeRecipe # NoRecipe
                     /\ RECIPES[st.activeRecipe].powerPerTick > 0
                     /\ ~st.powerSatisfied) =>
                      /\ nx.activeRecipe = st.activeRecipe
                      /\ nx.processingProgress = st.processingProgress
     /\ \A n \in DOMAIN states' :
          (/\ states'[n].activeRecipe # NoRecipe
           /\ RECIPES[states'[n].activeRecipe].powerPerTick > 0
           /\ states'[n].selectedRecipeIndex = 0 - 1
           /\ \A c \in DOMAIN connections' : connections'[c].toNodeId # n)
            => states'[n].processingProgress = 0
    ]_vars

\* a furnace in automatic mode that no connection reaches holds the iron
\* recipe at progress 0 after three ticks, its ore consumed
C36_Witness ==
  /\ pc = "idle"
  /\ last = "tick"
  /\ tickCount >= 3
  /\ \E n \in DOMAIN states :
       /\ states[n].machineTypeId = "furnace"
       /\ states[n].selectedRecipeIndex = 0 - 1
       /\ states[n].activeRecipe = getRecipesForMachine("furnace")[1]
       /\ states[n].processingProgress = 0
       /\ ~states[n].powerSatisfied
       /\ getAmount(states[n].inputInventory, "iron_ore") = 0
       /\ \A c \in DOMAIN connections : connections[c].toNodeId # n

C38_UnconsumableInput ==
  [][/\ \A n \in DOMAIN states \cap DOMAIN states' :
          LET recipes == getRecipesForMachine(states[n].machineTypeId)
          IN  Len(recipes) > 0 =>
                \A r \in ResourceIds :
                  (\A i \in DOMAIN recipes :
                     \A j \in DOMAIN RECIPES[recipes[i]].inputs :
                       RECIPES[recipes[i]].inputs[j].resourceId # r) =>
                    getAmount(states'[n].inputInventory, r)
                      >= getAmount(states[n].inputInventory, r)
     /\ pc = "transport" =>
          states' = transportPhase(
                      states, connections,
                      [i \in DOMAIN nodes |->
                         [nodes[i] EXCEPT !.inputs =
                            [j \in DOMAIN nodes[i].inputs |->
                               [nodes[i].inputs[j]
                                  EXCEPT !.resourceId = "iron_ore"]]]])
    ]_vars

\* a furnace whose input Inventory a miner has filled with rock, which no
\* furnace recipe takes
C38_Witness ==
  /\ pc = "idle"
  /\ last = "tick"
  /\ \E n \in DOMAIN states :
       /\ states[n].machineTypeId = "furnace"
       /\ getAmount(states[n].inputInventory, "rock")
            = states[n].inputInventory.maxCapacity
       /\ states[n].activeRecipe = NoRecipe

\* C39 (stale runtime state is inert): a runtime state whose node id is not
\* in the node list of a tick is changed by the tick only in that its
\* powerConsumed and powerProduced are reset to 0: its Inventories, active
\* recipe, progress and powerSatisfied stay as they are; it takes part in
\* no transport and supplies no power, even when a connection names it:
\* each phase leaves every state as it would without such connections.
C39_StaleStateInert ==
  [][LET stale == {n \in DOMAIN states : FindNode(nodes, n) = 0}
         live  == SelectSeq(connections,
                            LAMBDA c : /\ c.fromNodeId \notin stale
                                       /\ c.toNodeId \notin stale)
     IN  /\ (pc = "idle" /\ pc' = "transport") =>
              /\ \A n \in stale :
                   states'[n] = [states[n] EXCEPT !.powerConsumed = 0,
                                                  !.powerProduced = 0]
              /\ states' = powerPhase(ResetPower(states), live, nodes)
         /\ pc = "transport" =>
              /\ \A n \in stale : states'[n] = states[n]
              /\ states' = transportPhase(states, live, nodes)
         /\ pc = "process" =>
              \A n \in stale : states'[n] = states[n]
    ]_vars

\* three ticks have run; a generator removed while running keeps its recipe
\* and progress, and the furnace that a connection from it names, holding a
\* stalled recipe, has got no power
C39_Witness ==
  /\ pc = "idle"
  /\ last = "tick"
  /\ tickCount = 3
  /\ \E g, f \in DOMAIN states :
       /\ FindNode(nodes, g) = 0
       /\ FindNode(nodes, f) # 0
       /\ states[g].machineTypeId = "generator"
       /\ states[g].activeRecipe # NoRecipe
       /\ states[g].processingProgress = 0
       /\ states[g].powerProduced = 0
       /\ states[f].machineTypeId = "furnace"
       /\ states[f].activeRecipe # NoRecipe
       /\ ~states[f].powerSatisfied
       /\ \E c \in DOMAIN connections :
            connections[c].fromNodeId = g /\ connections[c].toNodeId = f

====
